---- MODULE Spec2Model ----
(***************************************************************************)
(* Token-state subsystem of go-jwt: the store backends (timed cache,       *)
(* key/value, relational), the Ed25519 claims validator and the consumer   *)
(* service that applies TokensMessages to a store.                         *)
(*                                                                         *)
(* Time.  Expiries reach the stores as whole Unix seconds.  A clock        *)
(* reading n stands for an instant strictly inside the second n (n < t <   *)
(* n + 1/2), so "t is after e" is n >= e and "e is later than t" is e > n. *)
(***************************************************************************)
EXTENDS Integers, Sequences, FiniteSets, TLC

(* ------------------------------ bounds --------------------------------- *)

\* the clock runs over 0..MaxTime
MaxTime == 2

\* number of store operations one behaviour calls
MaxOps == 4

(* --------------------------- token taxonomy ---------------------------- *)

RefreshToken == "refresh_token"

AccessToken == "access_token"

TokenKinds == {RefreshToken, AccessToken}

\* a Token value that is neither of the two
OtherToken == "id_token"

RefreshIds == {"r1"}

AccessIds == {"a1", "a2"}

\* the expiries the callers pass
Expiries == {1, 2}

Backends == {"cache", "redis", "sqlite"}

\* Token.Abbreviation
Abbreviation(t) ==
  IF t = RefreshToken THEN [val |-> "RT", err |-> "nil"]
  ELSE IF t = AccessToken THEN [val |-> "AT", err |-> "nil"]
  ELSE [val |-> "", err |-> "ErrUnexpectedTokenType"]

\* gostringsseparator.Dots
KeySeparator == "."

\* a joining of the prefix and the string with nothing between them
PrefixesWithoutSeparator(str, separator, prefix) == prefix \o str

\* gostringsadd.Prefixes(str, separator, prefix): the prefix, the separator, the string
Prefixes(str, separator, prefix) == prefix \o separator \o str

VARIABLES
  backend,        \* the backend this behaviour exercises
  now,            \* the clock, in whole seconds
  hist,           \* the store calls that have returned, oldest first
  call,           \* the store call in flight (pc = "idle": none)
  before,         \* token key -> its expiry when the RevokeToken call last made began
  cache,          \* timed cache: key -> TimedItem
  getPurges,      \* timed cache: Get reports an expired item as not found
  kv,             \* key/value store: key -> [val, exp]
  refresh_tokens, \* relational table: id -> expires_at
  access_tokens,  \* relational table: id -> [parent, expires_at]
  mutex,          \* relational backend: TokenValidator.mutex is held
  mode,           \* Ed25519Validator.mode
  store,          \* what the validator's store answers: (kind, id) -> [valid, err]
  result,         \* the last ValidateClaims call: its arguments and what it returned
  queue,          \* the messages the consumer's channel still holds, oldest first
  svc,            \* DefaultService.Start: where its loop is, and the message in hand
  published,      \* the bodies the broker delivers on the queue, in delivery order
  delivered,      \* how many of them the consumer has taken from deliveryCh
  deliveryClosed, \* deliveryCh has been closed
  ctxDone,        \* the context given to Start has been cancelled
  start,          \* DefaultService.Start: where it is, and what it returned
  consumer,       \* ConsumeTokensMessages: where it is, the message in hand, what it returned
  received,       \* the messages Start has taken from GetChannel(), oldest first
  pmutex,         \* DefaultPublisher.mutex: the thread that holds it, or "free"
  pch,            \* DefaultPublisher.ch
  pthreads,       \* the publisher's callers: thread -> the method it runs and where it is
  psent,          \* the bodies the broker has accepted from the publisher
  sync_tokens,    \* relational table: the rows of the sync watermark log, oldest first
  args,           \* the arguments a library function is called with
  out,            \* what the library function returned
  carrier         \* a transport adapter's context: key -> value

storeVars == <<backend, now, hist, call, before, cache, getPurges, kv, refresh_tokens, access_tokens, mutex>>

validatorVars == <<mode, store, result>>

serviceVars == <<queue, svc>>

pipelineVars == <<published, delivered, deliveryClosed, ctxDone, start, consumer, received>>

publisherVars == <<pmutex, pch, pthreads, psent>>

messagingVars == <<pipelineVars, publisherVars>>

libraryVars == <<sync_tokens, args, out, carrier>>

\* the value of out before the function is called
NotCalled == [called |-> FALSE]

vars == <<storeVars, validatorVars, serviceVars, messagingVars, libraryVars>>

\* a time.Duration: whole seconds, or (tiny) one of the negative nanosecond values
Seconds(n) == [tiny |-> FALSE, secs |-> n]

Idle == [pc |-> "idle", op |-> "", token |-> "", id |-> "", parent |-> "",
         exp |-> 0, ttl |-> Seconds(0), at |-> 0, access |-> ""]

\* one returned call, as hist records it
Returned(op, token, id, parent, exp, err) ==
  [op |-> op, token |-> token, id |-> id, parent |-> parent, exp |-> exp, err |-> err]

(* ------------------------- timed cache backend ------------------------- *)

\* gocachetimed.NewTimedItem(true | false, expiresAt)
TimedFlag(b, expiresAt) ==
  [isFlag |-> TRUE, flag |-> b, str |-> "", expiresAt |-> expiresAt]

\* gocachetimed.NewTimedItem(id, expiresAt)
TimedLink(id, expiresAt) ==
  [isFlag |-> FALSE, flag |-> FALSE, str |-> id, expiresAt |-> expiresAt]

\* TimedItem.HasExpired at clock reading t
HasExpired(item, t) == t >= item.expiresAt

\* TimedCache.Set
CacheSet(c, key, item) ==
  [k \in (DOMAIN c) \cup {key} |-> IF k = key THEN item ELSE c[k]]

\* TimedCache.Get at clock reading t: the stored item itself (the callers mutate it
\* in place).  The timed cache is a dependency; whether its Get still returns an
\* item that has expired is fixed per build by getPurges, and both are covered.
CacheGet(c, t, key) ==
  IF key \in DOMAIN c /\ ~(getPurges /\ HasExpired(c[key], t))
  THEN [found |-> TRUE, item |-> c[key]]
  ELSE [found |-> FALSE, item |-> TimedFlag(FALSE, 0)]

\* cache TokenValidator.GetTokenKey
GetTokenKey(token, id) ==
  LET p == Abbreviation(token) IN
  IF p.err # "nil" THEN [val |-> "", err |-> p.err]
  ELSE [val |-> Prefixes(p.val, KeySeparator, id), err |-> "nil"]

CacheParentPrefix == "PRT"

\* cache TokenValidator.GetParentRefreshTokenKey
GetParentRefreshTokenKey(id) == Prefixes(CacheParentPrefix, KeySeparator, id)

\* cache TokenValidator.AddRefreshToken
CacheAddRefreshToken(c, id, expiresAt) ==
  LET key == GetTokenKey(RefreshToken, id) IN
  IF key.err # "nil" THEN [cache |-> c, err |-> key.err]
  ELSE [cache |-> CacheSet(c, key.val, TimedFlag(TRUE, expiresAt)), err |-> "nil"]

\* cache TokenValidator.AddAccessToken at clock reading t
CacheAddAccessToken(c, t, id, parentRefreshTokenID, expiresAt) ==
  LET refreshTokenKey == GetTokenKey(RefreshToken, parentRefreshTokenID)
      got == CacheGet(c, t, refreshTokenKey.val)
      key == GetTokenKey(AccessToken, id)
      withAccess == CacheSet(c, key.val, TimedFlag(TRUE, expiresAt))
  IN
  IF refreshTokenKey.err # "nil" THEN [cache |-> c, err |-> refreshTokenKey.err]
  ELSE IF ~got.found THEN [cache |-> c, err |-> "ErrParentRefreshTokenNotFound"]
  ELSE IF HasExpired(got.item, t) THEN [cache |-> c, err |-> "nil"]
  ELSE IF key.err # "nil" THEN [cache |-> c, err |-> key.err]
  ELSE [cache |-> CacheSet(withAccess, GetParentRefreshTokenKey(parentRefreshTokenID),
                           TimedLink(id, expiresAt)),
        err |-> "nil"]

\* a faulty RevokeToken, which C1 must tell from the real one: the refresh
\* revocation stops before its cascade
CacheRevokeMarkNoCascade(c, t, token, id) ==
  LET key == GetTokenKey(token, id) IN
  IF key.err # "nil" THEN [cache |-> c, err |-> key.err, next |-> "done"]
  ELSE IF ~CacheGet(c, t, key.val).found
    THEN [cache |-> c, err |-> "ErrItemNotFound", next |-> "done"]
  ELSE [cache |-> [c EXCEPT ![key.val] = TimedFlag(FALSE, c[key.val].expiresAt)],
        err |-> "nil", next |-> "done"]

\* cache TokenValidator.RevokeToken, to its first return or to the parent lookup:
\* Get(key), item.SetValue(false) on the stored item, and the token != RefreshToken test
CacheRevokeMark(c, t, token, id) ==
  LET key == GetTokenKey(token, id) IN
  IF key.err # "nil" THEN [cache |-> c, err |-> key.err, next |-> "done"]
  ELSE IF ~CacheGet(c, t, key.val).found
    THEN [cache |-> c, err |-> "ErrItemNotFound", next |-> "done"]
  ELSE [cache |-> [c EXCEPT ![key.val] = TimedFlag(FALSE, c[key.val].expiresAt)],
        err |-> "nil",
        next |-> IF token # RefreshToken THEN "done" ELSE "parent"]

\* cache TokenValidator.RevokeToken, the parent lookup: Get(parentKey) and GetValue().(string)
CacheRevokeParent(c, t, id) ==
  LET got == CacheGet(c, t, GetParentRefreshTokenKey(id)) IN
  IF ~got.found THEN [err |-> "nil", next |-> "done", access |-> ""]
  ELSE IF got.item.isFlag
    THEN [err |-> "ErrInvalidParentRefreshTokenItem", next |-> "done", access |-> ""]
  ELSE [err |-> "nil", next |-> "child", access |-> got.item.str]

\* cache TokenValidator.IsTokenValid at clock reading t
CacheIsTokenValid(c, t, token, id) ==
  LET key == GetTokenKey(token, id)
      got == CacheGet(c, t, key.val)
  IN
  IF key.err # "nil" THEN [valid |-> FALSE, err |-> key.err]
  ELSE IF ~got.found THEN [valid |-> FALSE, err |-> "ErrItemNotFound"]
  ELSE IF HasExpired(got.item, t) THEN [valid |-> FALSE, err |-> "nil"]
  ELSE IF ~got.item.isFlag THEN [valid |-> FALSE, err |-> "ErrInvalidTokenItem"]
  ELSE [valid |-> got.item.flag, err |-> "nil"]

\* the records a caller can name: (kind, id)
TokenRecords == ({RefreshToken} \X RefreshIds) \cup ({AccessToken} \X AccessIds)

\* the expiresAt the cache holds for the record (kind, id) while the item is there
\* and unexpired, else 0
CacheRecordExpiry(token, id) ==
  LET key == GetTokenKey(token, id).val IN
  IF key \in DOMAIN cache /\ ~HasExpired(cache[key], now) THEN cache[key].expiresAt ELSE 0

CanCall(b) == backend = b /\ call.pc = "idle" /\ Len(hist) < MaxOps

\* a caller runs AddRefreshToken on the cache backend
CacheAddRefresh(id, expiresAt) ==
  /\ CanCall("cache")
  /\ LET r == CacheAddRefreshToken(cache, id, expiresAt) IN
     /\ cache' = r.cache
     /\ hist' = Append(hist, Returned("AddRefresh", RefreshToken, id, "", expiresAt, r.err))
  /\ UNCHANGED <<backend, before, now, call, getPurges, kv, refresh_tokens, access_tokens, mutex>>
  /\ UNCHANGED validatorVars
  /\ UNCHANGED messagingVars
  /\ UNCHANGED libraryVars
  /\ UNCHANGED serviceVars

\* a caller runs AddAccessToken on the cache backend
CacheAddAccess(id, parent, expiresAt) ==
  /\ CanCall("cache")
  /\ LET r == CacheAddAccessToken(cache, now, id, parent, expiresAt) IN
     /\ cache' = r.cache
     /\ hist' = Append(hist, Returned("AddAccess", AccessToken, id, parent, expiresAt, r.err))
  /\ UNCHANGED <<backend, before, now, call, getPurges, kv, refresh_tokens, access_tokens, mutex>>
  /\ UNCHANGED validatorVars
  /\ UNCHANGED messagingVars
  /\ UNCHANGED libraryVars
  /\ UNCHANGED serviceVars

\* a caller enters RevokeToken on the cache backend and marks the item
CacheRevoke(token, id) ==
  /\ CanCall("cache")
  /\ LET r == CacheRevokeMark(cache, now, token, id) IN
     /\ cache' = r.cache
     /\ IF r.next = "done"
        THEN /\ hist' = Append(hist, Returned("Revoke", token, id, "", 0, r.err))
             /\ call' = call
        ELSE /\ hist' = hist
             /\ call' = [Idle EXCEPT !.pc = "parent", !.op = "Revoke",
                                     !.token = token, !.id = id]
  /\ before' = [p \in TokenRecords |-> CacheRecordExpiry(p[1], p[2])]
  /\ UNCHANGED <<backend, now, getPurges, kv, refresh_tokens, access_tokens, mutex>>
  /\ UNCHANGED validatorVars
  /\ UNCHANGED messagingVars
  /\ UNCHANGED libraryVars
  /\ UNCHANGED serviceVars

\* RevokeToken(Refresh, id) reads the parent link
CacheRevokeLookup ==
  /\ backend = "cache" /\ call.pc = "parent"
  /\ LET r == CacheRevokeParent(cache, now, call.id) IN
     IF r.next = "done"
     THEN /\ hist' = Append(hist, Returned("Revoke", call.token, call.id, "", 0, r.err))
          /\ call' = Idle
     ELSE /\ hist' = hist
          /\ call' = [call EXCEPT !.pc = "child", !.access = r.access]
  /\ UNCHANGED <<backend, before, now, cache, getPurges, kv, refresh_tokens, access_tokens, mutex>>
  /\ UNCHANGED validatorVars
  /\ UNCHANGED messagingVars
  /\ UNCHANGED libraryVars
  /\ UNCHANGED serviceVars

\* RevokeToken(Refresh, id) runs the nested RevokeToken(Access, accessTokenID)
CacheRevokeChild ==
  /\ backend = "cache" /\ call.pc = "child"
  /\ LET r == CacheRevokeMark(cache, now, AccessToken, call.access) IN
     /\ cache' = r.cache
     /\ hist' = Append(hist, Returned("Revoke", call.token, call.id, "", 0, r.err))
     /\ call' = Idle
  /\ UNCHANGED <<backend, before, now, getPurges, kv, refresh_tokens, access_tokens, mutex>>
  /\ UNCHANGED validatorVars
  /\ UNCHANGED messagingVars
  /\ UNCHANGED libraryVars
  /\ UNCHANGED serviceVars

(* -------------------------- key/value backend -------------------------- *)

\* redis TokenValidator.GetKey
GetKey(token, id) ==
  LET p == Abbreviation(token) IN
  IF p.err # "nil" THEN [val |-> "", err |-> p.err]
  ELSE [val |-> Prefixes(id, KeySeparator, p.val), err |-> "nil"]

ParentRefreshTokenIDPrefix == "prt"

\* redis TokenValidator.GetParentRefreshTokenKey
RedisGetParentRefreshTokenKey(id) == Prefixes(id, KeySeparator, ParentRefreshTokenIDPrefix)

\* the key is in the store at clock reading t: there, and not past its expiry
KvLive(s, t, key) == key \in DOMAIN s /\ (~s[key].hasExp \/ s[key].exp > t)

\* the store drops what has expired at clock reading t
KvExpire(s, t) == [k \in {x \in DOMAIN s : KvLive(s, t, x)} |-> s[k]]

\* redisClient.Set(key, value, expiration): SET key value [PX expiration]; an
\* expiration that is not positive sends a plain SET, which leaves the key without a TTL
RedisSet(s, t, key, val, expiration) ==
  [k \in (DOMAIN s) \cup {key} |->
     IF k = key
     THEN [val |-> val, hasExp |-> expiration > 0,
           exp |-> IF expiration > 0 THEN t + expiration ELSE 0]
     ELSE s[k]]

\* an EXPIREAT that leaves the key as it is when the time given has passed
RedisExpireAtIgnoresPast(s, t, key, tm) ==
  IF ~KvLive(s, t, key) \/ tm <= t THEN s
  ELSE [s EXCEPT ![key] = [val |-> s[key].val, hasExp |-> TRUE, exp |-> tm]]

\* redisClient.ExpireAt(key, tm): EXPIREAT key tm.Unix(); a time that is not later
\* than the clock deletes the key, a missing key is left missing
RedisExpireAt(s, t, key, tm) ==
  IF ~KvLive(s, t, key) THEN s
  ELSE IF tm <= t THEN [k \in (DOMAIN s) \ {key} |-> s[k]]
  ELSE [s EXCEPT ![key] = [val |-> s[key].val, hasExp |-> TRUE, exp |-> tm]]

\* redisClient.TTL(key).Result(): -2ns for a missing key, -1ns for a key without a
\* TTL, else the remaining whole seconds
RedisTTL(s, t, key) ==
  IF ~KvLive(s, t, key) \/ ~s[key].hasExp THEN [tiny |-> TRUE, secs |-> 0]
  ELSE Seconds(s[key].exp - t)

\* time.Now().Add(ttl), as the Unix second ExpireAt sends
NowAdd(t, ttl) == IF ttl.tiny THEN t ELSE t + ttl.secs

\* redisClient.Get(key).Result()
RedisGet(s, t, key) ==
  IF KvLive(s, t, key) THEN [val |-> s[key].val, err |-> "nil"]
  ELSE [val |-> "", err |-> "redis.Nil"]

\* how go-redis writes the bool argument of Set
FormatBool(b) == IF b THEN "1" ELSE "0"

\* strconv.ParseBool
ParseBool(str) ==
  IF str \in {"1", "t", "T", "TRUE", "true", "True"} THEN [val |-> TRUE, err |-> "nil"]
  ELSE IF str \in {"0", "f", "F", "FALSE", "false", "False"} THEN [val |-> FALSE, err |-> "nil"]
  ELSE [val |-> FALSE, err |-> "ErrSyntax"]

\* redis TokenValidator.IsTokenValid at clock reading t
RedisIsTokenValid(s, t, token, id) ==
  LET key == GetKey(token, id)
      got == RedisGet(s, t, key.val)
      parsed == ParseBool(got.val)
  IN
  IF key.err # "nil" THEN [valid |-> FALSE, err |-> key.err]
  ELSE IF got.err = "redis.Nil" THEN [valid |-> FALSE, err |-> "nil"]
  ELSE IF parsed.err # "nil" THEN [valid |-> FALSE, err |-> parsed.err]
  ELSE [valid |-> parsed.val, err |-> "nil"]

\* the expiry the store holds for the record (kind, id) while the key is there, else 0
RedisRecordExpiry(token, id) ==
  LET key == GetKey(token, id).val IN
  IF KvLive(kv, now, key) /\ kv[key].hasExp THEN kv[key].exp ELSE 0

\* the first Redis command of setKey(key, isValid, expiresAt): Set(key, isValid, 0)
SetKeyValue(s, t, key, isValid) == RedisSet(s, t, key, FormatBool(isValid), 0)

\* AddRefreshToken on the key/value backend, up to the Set of setKey
RedisAddRefresh(id, expiresAt) ==
  /\ CanCall("redis")
  /\ kv' = SetKeyValue(kv, now, GetKey(RefreshToken, id).val, TRUE)
  /\ call' = [Idle EXCEPT !.pc = "expire", !.op = "AddRefresh", !.token = RefreshToken,
                          !.id = id, !.exp = expiresAt, !.at = expiresAt]
  /\ UNCHANGED <<backend, before, now, hist, cache, getPurges, refresh_tokens, access_tokens, mutex>>
  /\ UNCHANGED validatorVars
  /\ UNCHANGED messagingVars
  /\ UNCHANGED libraryVars
  /\ UNCHANGED serviceVars

\* AddAccessToken on the key/value backend: Set(parentKey, id, time.Until(expiresAt))
RedisAddAccess(id, parent, expiresAt) ==
  /\ CanCall("redis")
  /\ kv' = RedisSet(kv, now, RedisGetParentRefreshTokenKey(parent), id, expiresAt - now)
  /\ call' = [Idle EXCEPT !.pc = "set", !.op = "AddAccess", !.token = AccessToken,
                          !.id = id, !.parent = parent, !.exp = expiresAt,
                          !.at = expiresAt]
  /\ UNCHANGED <<backend, before, now, hist, cache, getPurges, refresh_tokens, access_tokens, mutex>>
  /\ UNCHANGED validatorVars
  /\ UNCHANGED messagingVars
  /\ UNCHANGED libraryVars
  /\ UNCHANGED serviceVars

\* AddAccessToken on the key/value backend: the Set of setKey(key, true, expiresAt)
RedisAddAccessSet ==
  /\ backend = "redis" /\ call.pc = "set"
  /\ kv' = SetKeyValue(kv, now, GetKey(AccessToken, call.id).val, TRUE)
  /\ call' = [call EXCEPT !.pc = "expire"]
  /\ UNCHANGED <<backend, before, now, hist, cache, getPurges, refresh_tokens, access_tokens, mutex>>
  /\ UNCHANGED validatorVars
  /\ UNCHANGED messagingVars
  /\ UNCHANGED libraryVars
  /\ UNCHANGED serviceVars

\* RevokeToken on the key/value backend: TTL(key)
RedisRevoke(token, id) ==
  /\ CanCall("redis")
  /\ call' = [Idle EXCEPT !.pc = "revoke", !.op = "Revoke", !.token = token, !.id = id,
                          !.ttl = RedisTTL(kv, now, GetKey(token, id).val)]
  /\ before' = [p \in TokenRecords |-> RedisRecordExpiry(p[1], p[2])]
  /\ UNCHANGED <<backend, now, hist, kv, cache, getPurges, refresh_tokens, access_tokens, mutex>>
  /\ UNCHANGED validatorVars
  /\ UNCHANGED messagingVars
  /\ UNCHANGED libraryVars
  /\ UNCHANGED serviceVars

\* a RevokeToken whose Set marks every key of the store false, which C40 must tell from
\* the real one
RedisRevokeSetMarksAll ==
  /\ backend = "redis" /\ call.pc = "revoke"
  /\ LET marked == SetKeyValue(kv, now, GetKey(call.token, call.id).val, FALSE) IN
     kv' = [k \in DOMAIN marked |-> [marked[k] EXCEPT !.val = FormatBool(FALSE)]]
  /\ call' = [call EXCEPT !.pc = "expire", !.at = NowAdd(now, call.ttl)]
  /\ UNCHANGED <<backend, before, now, hist, cache, getPurges, refresh_tokens, access_tokens, mutex>>
  /\ UNCHANGED validatorVars
  /\ UNCHANGED messagingVars
  /\ UNCHANGED libraryVars
  /\ UNCHANGED serviceVars

\* RevokeToken: time.Now().Add(ttl) and the Set of setKey(key, false, ...)
RedisRevokeSet ==
  /\ backend = "redis" /\ call.pc = "revoke"
  /\ kv' = SetKeyValue(kv, now, GetKey(call.token, call.id).val, FALSE)
  /\ call' = [call EXCEPT !.pc = "expire", !.at = NowAdd(now, call.ttl)]
  /\ UNCHANGED <<backend, before, now, hist, cache, getPurges, refresh_tokens, access_tokens, mutex>>
  /\ UNCHANGED validatorVars
  /\ UNCHANGED messagingVars
  /\ UNCHANGED libraryVars
  /\ UNCHANGED serviceVars

\* the ExpireAt of setKey, and what the caller of setKey does when it returns
RedisExpire ==
  /\ backend = "redis" /\ call.pc = "expire"
  /\ LET key == IF call.access # "" THEN GetKey(AccessToken, call.access).val
                ELSE GetKey(call.token, call.id).val
     IN kv' = RedisExpireAt(kv, now, key, call.at)
  /\ IF call.op = "Revoke" /\ call.token # AccessToken /\ call.access = ""
     THEN /\ call' = [call EXCEPT !.pc = "link"]
          /\ hist' = hist
     ELSE /\ call' = Idle
          /\ hist' = Append(hist, Returned(call.op, call.token, call.id, call.parent,
                                           call.exp, "nil"))
  /\ UNCHANGED <<backend, before, now, cache, getPurges, refresh_tokens, access_tokens, mutex>>
  /\ UNCHANGED validatorVars
  /\ UNCHANGED messagingVars
  /\ UNCHANGED libraryVars
  /\ UNCHANGED serviceVars

\* RevokeToken(Refresh, id): Get(parentRefreshTokenKey)
RedisRevokeLink ==
  /\ backend = "redis" /\ call.pc = "link"
  /\ LET got == RedisGet(kv, now, RedisGetParentRefreshTokenKey(call.id)) IN
     IF got.err # "nil"
     THEN /\ call' = Idle
          /\ hist' = Append(hist, Returned("Revoke", call.token, call.id, "", 0, got.err))
     ELSE /\ call' = [call EXCEPT !.pc = "childttl", !.access = got.val]
          /\ hist' = hist
  /\ UNCHANGED <<backend, before, now, kv, cache, getPurges, refresh_tokens, access_tokens, mutex>>
  /\ UNCHANGED validatorVars
  /\ UNCHANGED messagingVars
  /\ UNCHANGED libraryVars
  /\ UNCHANGED serviceVars

\* RevokeToken(Refresh, id): TTL(accessTokenKey)
RedisRevokeChildTTL ==
  /\ backend = "redis" /\ call.pc = "childttl"
  /\ call' = [call EXCEPT !.pc = "childset",
                          !.ttl = RedisTTL(kv, now, GetKey(AccessToken, call.access).val)]
  /\ UNCHANGED <<backend, before, now, hist, kv, cache, getPurges, refresh_tokens, access_tokens, mutex>>
  /\ UNCHANGED validatorVars
  /\ UNCHANGED messagingVars
  /\ UNCHANGED libraryVars
  /\ UNCHANGED serviceVars

\* RevokeToken(Refresh, id): time.Now().Add(accessTokenTTL) and the Set of setKey
RedisRevokeChildSet ==
  /\ backend = "redis" /\ call.pc = "childset"
  /\ kv' = SetKeyValue(kv, now, GetKey(AccessToken, call.access).val, FALSE)
  /\ call' = [call EXCEPT !.pc = "expire", !.at = NowAdd(now, call.ttl)]
  /\ UNCHANGED <<backend, before, now, hist, cache, getPurges, refresh_tokens, access_tokens, mutex>>
  /\ UNCHANGED validatorVars
  /\ UNCHANGED messagingVars
  /\ UNCHANGED libraryVars
  /\ UNCHANGED serviceVars

(* -------------------------- relational backend ------------------------- *)

\* a caller enters AddRefreshToken, AddAccessToken, RevokeToken or IsTokenValid of the
\* relational backend with a known token kind; each of them first calls t.DB()
SqliteCall(op, token, id, parent, expiresAt) ==
  /\ CanCall("sqlite")
  /\ call' = [Idle EXCEPT !.pc = "DB", !.op = op, !.token = token, !.id = id,
                          !.parent = parent, !.exp = expiresAt]
  /\ UNCHANGED <<backend, now, hist, before, cache, getPurges, kv, refresh_tokens,
                 access_tokens, mutex>>
  /\ UNCHANGED validatorVars
  /\ UNCHANGED messagingVars
  /\ UNCHANGED libraryVars
  /\ UNCHANGED serviceVars

\* sqlite TokenValidator.DB: t.mutex.Lock(), then db, err := t.DB() -- the method
\* itself, not the embedded Handler's -- whose Lock waits for the mutex held here
SqliteDB ==
  /\ backend = "sqlite" /\ call.pc = "DB"
  /\ ~mutex
  /\ mutex' = TRUE
  /\ UNCHANGED <<backend, now, hist, call, before, cache, getPurges, kv, refresh_tokens,
                 access_tokens>>
  /\ UNCHANGED validatorVars
  /\ UNCHANGED messagingVars
  /\ UNCHANGED libraryVars
  /\ UNCHANGED serviceVars

\* sqlite TokenValidator.IsTokenValid: a kind that is neither token returns false, nil;
\* the two known kinds go through DB(), which does not return
SqliteIsTokenValid(token, id) ==
  IF token \notin TokenKinds THEN [returns |-> TRUE, valid |-> FALSE, err |-> "nil"]
  ELSE [returns |-> FALSE, valid |-> FALSE, err |-> "nil"]

\* a RevokeToken that takes any kind it does not know for a refresh token and deletes
\* its row and the rows of its access tokens
SqliteRevokeTokenAsRefresh(token, id, rt, at) ==
  [returns |-> TRUE, err |-> "nil",
   refresh_tokens |-> [k \in DOMAIN rt \ {id} |-> rt[k]],
   access_tokens |-> [k \in {a \in DOMAIN at : at[a].parent # id} |-> at[k]]]

\* sqlite TokenValidator.RevokeToken on the tables rt and at: a kind that is neither token
\* is logged and nil returned; the two known kinds go through DB(), which does not return
SqliteRevokeToken(token, id, rt, at) ==
  [returns |-> token \notin TokenKinds, err |-> "nil", refresh_tokens |-> rt, access_tokens |-> at]

\* a caller runs RevokeToken or IsTokenValid of the relational backend with a kind that is
\* neither token: the default case of the switch, which returns at once
SqliteCallOtherKind(op, token, id) ==
  /\ CanCall("sqlite")
  /\ token \notin TokenKinds
  /\ LET r == IF op = "Revoke" THEN SqliteRevokeToken(token, id, refresh_tokens, access_tokens)
              ELSE SqliteIsTokenValid(token, id) @@
                   [refresh_tokens |-> refresh_tokens, access_tokens |-> access_tokens] IN
     /\ r.returns
     /\ refresh_tokens' = r.refresh_tokens
     /\ access_tokens' = r.access_tokens
     /\ hist' = Append(hist, Returned(op, token, id, "", 0, r.err))
     /\ out' = [called |-> TRUE, valid |-> (op = "IsValid" /\ r.valid)]
  /\ UNCHANGED <<backend, now, call, before, cache, getPurges, kv, mutex>>
  /\ UNCHANGED <<sync_tokens, args, carrier>>
  /\ UNCHANGED <<validatorVars, serviceVars, messagingVars>>

(* ------------------------- a store that is down ------------------------ *)

\* a method of the key/value backend called while the server refuses every command:
\* the first command of the method (Set, TTL or Get) fails and the method returns
\* that error
RedisCallServerDown(op, token, id, parent, expiresAt) ==
  /\ CanCall("redis")
  /\ hist' = Append(hist, Returned(op, token, id, parent, expiresAt, "connection refused"))
  /\ UNCHANGED <<backend, now, call, before, cache, getPurges, kv, refresh_tokens,
                 access_tokens, mutex>>
  /\ UNCHANGED validatorVars
  /\ UNCHANGED messagingVars
  /\ UNCHANGED libraryVars
  /\ UNCHANGED serviceVars

(* ------------------------- what a caller observes ---------------------- *)

\* the expires_at of the record (kind, id) in the backend under exercise, 0 for none
RecordExpiry(token, id) ==
  IF backend = "cache" THEN CacheRecordExpiry(token, id)
  ELSE IF backend = "redis" THEN RedisRecordExpiry(token, id)
  ELSE IF token = RefreshToken
  THEN (IF id \in DOMAIN refresh_tokens THEN refresh_tokens[id] ELSE 0)
  ELSE (IF id \in DOMAIN access_tokens THEN access_tokens[id].expires_at ELSE 0)

\* IsTokenValid(kind, id) called now on the backend under exercise: whether the call
\* returns, and with what
IsValid(token, id) ==
  IF backend = "cache"
  THEN LET r == CacheIsTokenValid(cache, now, token, id) IN
       [returns |-> TRUE, valid |-> r.valid, err |-> r.err]
  ELSE IF backend = "redis"
  THEN LET r == RedisIsTokenValid(kv, now, token, id) IN
       [returns |-> TRUE, valid |-> r.valid, err |-> r.err]
  ELSE SqliteIsTokenValid(token, id)

\* the backend holds a record for (kind, id)
HasRecord(token, id) ==
  IF backend = "cache" THEN GetTokenKey(token, id).val \in DOMAIN cache
  ELSE IF backend = "redis" THEN KvLive(kv, now, GetKey(token, id).val)
  ELSE IF token = RefreshToken THEN id \in DOMAIN refresh_tokens
  ELSE id \in DOMAIN access_tokens

\* the last call made is over: it returned, or it waits in DB() for good
Settled == call.pc = "idle" \/ (backend = "sqlite" /\ call.pc = "DB" /\ mutex)

(* ------------------------------ validator ------------------------------ *)

\* the ids a token can carry as a string jti
JtiStrings == {"r1", "a1"}

\* the jti claim of a token: absent, a number, or a string
JtiValues ==
  {[kind |-> "absent", str |-> ""], [kind |-> "number", str |-> ""]}
    \cup {[kind |-> "string", str |-> x] : x \in JtiStrings}

\* the signing methods registered with the jwt library that the tokens name
SigningMethods == {"EdDSA", "HS256"}

\* the raw tokens a caller presents: malformed or not, the alg of the header, whether
\* the signature verifies under the public key, the exp and nbf claims, the jti claim
RawTokens ==
  [malformed : BOOLEAN, alg : SigningMethods \cup {"XS256"}, sigOK : BOOLEAN,
   exp : {1, 2}, nbf : {0, 1}, jti : JtiValues]

\* what a store can answer to IsValid
StoreAnswers ==
  {[valid |-> TRUE, err |-> "nil"], [valid |-> FALSE, err |-> "nil"],
   [valid |-> FALSE, err |-> "ErrItemNotFound"]}

NoError == {}

\* jwt.Parse(rawToken, keyFunc) at clock reading t, with the keyFunc of GetToken: the
\* token it returns (nil or not, and its Valid field) and the error, as the set of
\* the sentinels errors.Is finds in it.  In order: the segments are decoded, the
\* keyFunc refuses a method that is not Ed25519, the signature is verified, the
\* registered claims are validated.
JwtParse(raw, t) ==
  LET claimErrs == (IF t >= raw.exp THEN {"ErrTokenExpired"} ELSE {})
                     \cup (IF t < raw.nbf THEN {"ErrTokenNotValidYet"} ELSE {})
  IN
  IF raw.malformed THEN [nil |-> TRUE, Valid |-> FALSE, err |-> {"ErrTokenMalformed"}]
  ELSE IF raw.alg \notin SigningMethods
    THEN [nil |-> FALSE, Valid |-> FALSE, err |-> {"ErrTokenUnverifiable"}]
  ELSE IF raw.alg # "EdDSA"
    THEN [nil |-> FALSE, Valid |-> FALSE,
          err |-> {"ErrTokenUnverifiable", "ErrUnexpectedSigningMethod"}]
  ELSE IF ~raw.sigOK
    THEN [nil |-> FALSE, Valid |-> FALSE,
          err |-> {"ErrTokenSignatureInvalid", "ErrEd25519Verification"}]
  ELSE IF claimErrs # {}
    THEN [nil |-> FALSE, Valid |-> FALSE, err |-> {"ErrTokenInvalidClaims"} \cup claimErrs]
  ELSE [nil |-> FALSE, Valid |-> TRUE, err |-> NoError]

\* the case of the switch of GetToken that err selects: the first whose errors.Is holds, else default
SwitchCase(err) ==
  IF "ErrUnexpectedSigningMethod" \in err THEN "ErrUnexpectedSigningMethod"
  ELSE IF "ErrSignatureInvalid" \in err THEN "ErrSignatureInvalid"
  ELSE IF "ErrTokenExpired" \in err THEN "ErrTokenExpired"
  ELSE IF "ErrTokenNotValidYet" \in err THEN "ErrTokenNotValidYet"
  ELSE IF "ErrTokenMalformed" \in err THEN "ErrTokenMalformed"
  ELSE "default"

\* a GetToken whose default case returns the error of jwt.Parse as it is
GetTokenLeaksCause(raw, t, m) ==
  LET parsed == JwtParse(raw, t) IN
  IF parsed.err # NoError /\ (m = "debug" \/ SwitchCase(parsed.err) \in {"ErrTokenMalformed", "default"})
    THEN [ok |-> FALSE, err |-> parsed.err]
  ELSE IF ~parsed.Valid THEN [ok |-> FALSE, err |-> {"ErrInvalidToken"}]
  ELSE [ok |-> TRUE, err |-> NoError]

\* Ed25519Validator.GetToken: a Go case with no statement does nothing and leaves the
\* switch, so only the ErrTokenMalformed case and the default return inside it
GetToken(raw, t, m) ==
  LET parsed == JwtParse(raw, t)
      selected == SwitchCase(parsed.err)
  IN
  IF parsed.err # NoError /\ m = "debug" THEN [ok |-> FALSE, err |-> parsed.err]
  ELSE IF parsed.err # NoError /\ selected = "ErrTokenMalformed"
    THEN [ok |-> FALSE, err |-> parsed.err]
  ELSE IF parsed.err # NoError /\ selected = "default"
    THEN [ok |-> FALSE, err |-> {"ErrInvalidToken"}]
  ELSE IF ~parsed.Valid THEN [ok |-> FALSE, err |-> {"ErrInvalidToken"}]
  ELSE [ok |-> TRUE, err |-> NoError]

\* Ed25519Validator.GetClaims: jwt.Parse fills a jwt.MapClaims, so the type
\* assertion holds
GetClaims(raw, t, m) == GetToken(raw, t, m)

\* a faulty claims validator, which C8 must tell from the real one: it does not ask
\* the store
ClaimsValidatorSkipsStore(jti, token, st) ==
  IF jti.kind = "absent"
  THEN [valid |-> FALSE, err |-> {"ErrIDClaimNotFound"}, consulted |-> FALSE]
  ELSE IF jti.kind # "string"
  THEN [valid |-> FALSE, err |-> {"ErrInvalidIDClaim"}, consulted |-> FALSE]
  ELSE [valid |-> TRUE, err |-> NoError, consulted |-> FALSE]

\* DefaultClaimsValidator.ValidateClaims on the claims of a parsed token (never nil),
\* with the store st
ClaimsValidator(jti, token, st) ==
  IF jti.kind = "absent"
  THEN [valid |-> FALSE, err |-> {"ErrIDClaimNotFound"}, consulted |-> FALSE]
  ELSE IF jti.kind # "string"
  THEN [valid |-> FALSE, err |-> {"ErrInvalidIDClaim"}, consulted |-> FALSE]
  ELSE LET answer == st[<<token, jti.str>>] IN
       IF answer.err # "nil"
       THEN [valid |-> FALSE, err |-> {answer.err}, consulted |-> TRUE]
       ELSE [valid |-> answer.valid, err |-> NoError, consulted |-> TRUE]

\* Ed25519Validator.ValidateClaims(rawToken, token) at clock reading t
ValidateClaims(raw, token, t, m, st) ==
  LET got == GetClaims(raw, t, m)
      checked == ClaimsValidator(raw.jti, token, st)
  IN
  IF ~got.ok THEN [claims |-> FALSE, err |-> got.err, consulted |-> FALSE]
  ELSE IF checked.err # NoError
    THEN [claims |-> FALSE, err |-> checked.err, consulted |-> checked.consulted]
  ELSE IF ~checked.valid
    THEN [claims |-> FALSE, err |-> {"ErrInvalidToken"}, consulted |-> checked.consulted]
  ELSE [claims |-> TRUE, err |-> NoError, consulted |-> checked.consulted]

NoResult ==
  [done |-> FALSE, raw |-> [malformed |-> FALSE, alg |-> "", sigOK |-> FALSE, exp |-> 0,
                            nbf |-> 0, jti |-> [kind |-> "absent", str |-> ""]],
   token |-> "", at |-> 0, claims |-> FALSE, err |-> NoError, consulted |-> FALSE]

\* a caller runs ValidateClaims(rawToken, token), once in a behaviour
Validate(raw, token) ==
  /\ ~result.done
  /\ LET r == ValidateClaims(raw, token, now, mode, store) IN
     result' = [done |-> TRUE, raw |-> raw, token |-> token, at |-> now,
                claims |-> r.claims, err |-> r.err, consulted |-> r.consulted]
  /\ UNCHANGED <<mode, store>>
  /\ UNCHANGED storeVars
  /\ UNCHANGED messagingVars
  /\ UNCHANGED libraryVars
  /\ UNCHANGED serviceVars

(* ------------------------------- service ------------------------------- *)

\* the longest channel content
MaxMsgs == 2

\* rabbitmq TokenPair
TokenPair(r, a, e) ==
  [RefreshTokenID |-> r, AccessTokenID |-> a, RefreshTokenExpiresAt |-> e,
   AccessTokenExpiresAt |-> e]

\* the lists of issued pairs a message carries
IssuedLists ==
  {<<>>} \cup {<<TokenPair("r1", "a1", e)>> : e \in Expiries}
         \cup {<<TokenPair("r1", "a1", e), TokenPair("r1", "a2", e)>> : e \in Expiries}

\* rabbitmq TokensMessage
Messages ==
  [IssuedTokenPairs : IssuedLists, RevokedRefreshTokensID : {<<>>, <<"r1">>},
   RevokedAccessTokensID : {<<>>, <<"a1">>}]

NoMessage ==
  [IssuedTokenPairs |-> <<>>, RevokedRefreshTokensID |-> <<>>, RevokedAccessTokensID |-> <<>>]

NotStarted == [pc |-> "recv", i |-> 0, msg |-> NoMessage, applied |-> <<>>, err |-> "nil"]

\* cache TokenValidator.RevokeToken run to its return at one clock reading
CacheRevokeToken(c, t, token, id) ==
  LET marked == CacheRevokeMark(c, t, token, id)
      parent == CacheRevokeParent(marked.cache, t, id)
      child == CacheRevokeMark(marked.cache, t, AccessToken, parent.access)
  IN
  IF marked.next = "done" THEN [cache |-> marked.cache, err |-> marked.err]
  ELSE IF parent.next = "done" THEN [cache |-> marked.cache, err |-> parent.err]
  ELSE [cache |-> child.cache, err |-> child.err]

\* redis TokenValidator.setKey run to its return at one clock reading
SetKey(s, t, key, isValid, expiresAt) ==
  RedisExpireAt(SetKeyValue(s, t, key, isValid), t, key, expiresAt)

\* redis TokenValidator.AddRefreshToken
RedisAddRefreshToken(s, t, id, expiresAt) ==
  [kv |-> SetKey(s, t, GetKey(RefreshToken, id).val, TRUE, expiresAt), err |-> "nil"]

\* redis TokenValidator.AddAccessToken
RedisAddAccessToken(s, t, id, parentRefreshTokenID, expiresAt) ==
  LET linked == RedisSet(s, t, RedisGetParentRefreshTokenKey(parentRefreshTokenID), id,
                         expiresAt - t)
  IN [kv |-> SetKey(linked, t, GetKey(AccessToken, id).val, TRUE, expiresAt), err |-> "nil"]

\* redis TokenValidator.RevokeToken run to its return at one clock reading
RedisRevokeToken(s, t, token, id) ==
  LET key == GetKey(token, id).val
      revoked == SetKey(s, t, key, FALSE, NowAdd(t, RedisTTL(s, t, key)))
      got == RedisGet(revoked, t, RedisGetParentRefreshTokenKey(id))
      accessTokenKey == GetKey(AccessToken, got.val).val
  IN
  IF token = AccessToken THEN [kv |-> revoked, err |-> "nil"]
  ELSE IF got.err # "nil" THEN [kv |-> revoked, err |-> got.err]
  ELSE [kv |-> SetKey(revoked, t, accessTokenKey, FALSE,
                      NowAdd(t, RedisTTL(revoked, t, accessTokenKey))),
        err |-> "nil"]

\* the store call the service makes, on the backend it was built with
StoreCall(c) ==
  IF backend = "cache"
  THEN LET r == IF c.op = "AddRefresh" THEN CacheAddRefreshToken(cache, c.id, c.exp)
                ELSE IF c.op = "AddAccess"
                THEN CacheAddAccessToken(cache, now, c.id, c.parent, c.exp)
                ELSE CacheRevokeToken(cache, now, c.token, c.id)
       IN [cache |-> r.cache, kv |-> kv, err |-> r.err]
  ELSE LET r == IF c.op = "AddRefresh" THEN RedisAddRefreshToken(kv, now, c.id, c.exp)
                ELSE IF c.op = "AddAccess"
                THEN RedisAddAccessToken(kv, now, c.id, c.parent, c.exp)
                ELSE RedisRevokeToken(kv, now, c.token, c.id)
       IN [cache |-> cache, kv |-> r.kv, err |-> r.err]

\* the loops of Start over one message, in the order of the code
Loops == <<"issued", "revokedRefresh", "revokedAccess", "revokedAccessAgain">>

\* how many turns the loop takes on the message
Turns(msg, loop) ==
  IF loop = "issued" THEN Len(msg.IssuedTokenPairs)
  ELSE IF loop = "revokedRefresh" THEN Len(msg.RevokedRefreshTokensID)
  ELSE Len(msg.RevokedAccessTokensID)

\* where Start goes from the top of loop number n: into the first loop from there
\* that has a turn to take, or back to the select
Enter(msg, n) ==
  LET open == {k \in n..Len(Loops) : Turns(msg, Loops[k]) > 0} IN
  IF open = {} THEN [pc |-> "recv", i |-> 0]
  ELSE LET k == CHOOSE x \in open : \A y \in open : x <= y IN
       [pc |-> IF Loops[k] = "issued" THEN "addRefresh" ELSE Loops[k], i |-> 1]

LoopNumber(loop) == CHOOSE k \in 1..Len(Loops) : Loops[k] = loop

\* where Start goes after turn i of the loop
After(msg, loop, i) ==
  IF i < Turns(msg, loop)
  THEN [pc |-> IF loop = "issued" THEN "addRefresh" ELSE loop, i |-> i + 1]
  ELSE Enter(msg, LoopNumber(loop) + 1)

\* Start takes a message from the channel
ServiceReceive ==
  /\ svc.pc = "recv" /\ queue # <<>>
  /\ LET msg == Head(queue)
         to == Enter(msg, 1)
     IN /\ svc' = [pc |-> to.pc, i |-> to.i, msg |-> msg, applied |-> <<>>, err |-> "nil"]
        /\ received' = Append(received, msg)
  /\ queue' = Tail(queue)
  /\ UNCHANGED storeVars
  /\ UNCHANGED validatorVars
  /\ UNCHANGED <<published, delivered, deliveryClosed, ctxDone, start, consumer>>
  /\ UNCHANGED publisherVars
  /\ UNCHANGED libraryVars

\* a Start that notes the error of the store call c and goes on to `to`
ServiceCallGoesOn(c, to) ==
  /\ backend # "sqlite"
  /\ LET r == StoreCall(c) IN
     /\ cache' = r.cache
     /\ kv' = r.kv
     /\ svc' = [svc EXCEPT !.pc = to.pc, !.i = to.i, !.err = r.err,
                           !.applied = Append(svc.applied, c)]
  /\ UNCHANGED <<backend, now, hist, call, before, getPurges, refresh_tokens,
                 access_tokens, mutex, queue>>
  /\ UNCHANGED validatorVars
  /\ UNCHANGED messagingVars
  /\ UNCHANGED libraryVars

\* Start makes the store call c; an error ends Start, else it goes on to `to`
ServiceCall(c, to) ==
  /\ backend # "sqlite"
  /\ LET r == StoreCall(c) IN
     /\ cache' = r.cache
     /\ kv' = r.kv
     /\ svc' = IF r.err # "nil"
               THEN [svc EXCEPT !.pc = "stopped", !.err = r.err,
                                !.applied = Append(svc.applied, c)]
               ELSE [svc EXCEPT !.pc = to.pc, !.i = to.i,
                                !.applied = Append(svc.applied, c)]
  /\ UNCHANGED <<backend, now, hist, call, before, getPurges, refresh_tokens,
                 access_tokens, mutex, queue>>
  /\ UNCHANGED validatorVars
  /\ UNCHANGED messagingVars
  /\ UNCHANGED libraryVars

StoreCallOf(op, token, id, parent, exp) ==
  [op |-> op, token |-> token, id |-> id, parent |-> parent, exp |-> exp]

\* the issued loop: d.AddRefreshToken
ServiceAddRefreshToken ==
  /\ svc.pc = "addRefresh"
  /\ LET pair == svc.msg.IssuedTokenPairs[svc.i] IN
     ServiceCall(StoreCallOf("AddRefresh", RefreshToken, pair.RefreshTokenID, "",
                             pair.RefreshTokenExpiresAt),
                 [pc |-> "addAccess", i |-> svc.i])

\* the issued loop: d.AddAccessToken
ServiceAddAccessToken ==
  /\ svc.pc = "addAccess"
  /\ LET pair == svc.msg.IssuedTokenPairs[svc.i] IN
     ServiceCall(StoreCallOf("AddAccess", AccessToken, pair.AccessTokenID,
                             pair.RefreshTokenID, pair.AccessTokenExpiresAt),
                 After(svc.msg, "issued", svc.i))

\* the loop over RevokedRefreshTokensID
ServiceRevokeRefresh ==
  /\ svc.pc = "revokedRefresh"
  /\ ServiceCall(StoreCallOf("Revoke", RefreshToken, svc.msg.RevokedRefreshTokensID[svc.i],
                             "", 0),
                 After(svc.msg, "revokedRefresh", svc.i))

\* the first loop over RevokedAccessTokensID
ServiceRevokeAccess ==
  /\ svc.pc = "revokedAccess"
  /\ ServiceCall(StoreCallOf("Revoke", AccessToken, svc.msg.RevokedAccessTokensID[svc.i],
                             "", 0),
                 After(svc.msg, "revokedAccess", svc.i))

\* the second loop over RevokedAccessTokensID
ServiceRevokeAccessAgain ==
  /\ svc.pc = "revokedAccessAgain"
  /\ ServiceCall(StoreCallOf("Revoke", AccessToken, svc.msg.RevokedAccessTokensID[svc.i],
                             "", 0),
                 After(svc.msg, "revokedAccessAgain", svc.i))

\* the clock of the service
ServiceTick ==
  /\ now < MaxTime
  /\ now' = now + 1
  /\ kv' = KvExpire(kv, now + 1)
  /\ UNCHANGED <<backend, before, hist, call, cache, getPurges, refresh_tokens,
                 access_tokens, mutex>>
  /\ UNCHANGED validatorVars
  /\ UNCHANGED messagingVars
  /\ UNCHANGED libraryVars
  /\ UNCHANGED serviceVars

(* ------------------------------ pipeline ------------------------------- *)

\* the most bodies the broker delivers
MaxDeliveries == 2

\* the largest buffer size the consumer is configured with
MaxBufferSize == 1

DefaultTokensMessageConsumerChannelBufferSize == 100

\* time.Time.MarshalJSON: the instant as RFC 3339 text
MarshalTime(e) == <<"rfc3339", e>>

\* time.Time.UnmarshalJSON
UnmarshalTime(text) == text[2]

\* json.Marshal of a TokensMessage: an object keyed by the json tags, arrays in order
Marshal(msg) ==
  [syntax |-> "object",
   issued_token_pairs |->
     [k \in 1..Len(msg.IssuedTokenPairs) |->
        LET pair == msg.IssuedTokenPairs[k] IN
        [refresh_token_id |-> pair.RefreshTokenID,
         refresh_token_expires_at |-> MarshalTime(pair.RefreshTokenExpiresAt),
         access_token_id |-> pair.AccessTokenID,
         access_token_expires_at |-> MarshalTime(pair.AccessTokenExpiresAt)]],
   revoked_refresh_tokens_id |-> msg.RevokedRefreshTokensID,
   revoked_access_tokens_id |-> msg.RevokedAccessTokensID]

\* a body that is not JSON
Undecodable ==
  [syntax |-> "invalid", issued_token_pairs |-> <<>>, revoked_refresh_tokens_id |-> <<>>,
   revoked_access_tokens_id |-> <<>>]

\* a decoder that reads each list of revoked ids from the other list's key
UnmarshalSwapsLists(body) ==
  IF body.syntax # "object" THEN [err |-> "SyntaxError", msg |-> NoMessage]
  ELSE [err |-> "nil",
        msg |-> [IssuedTokenPairs |->
                   [k \in 1..Len(body.issued_token_pairs) |->
                      LET o == body.issued_token_pairs[k] IN
                      [RefreshTokenID |-> o.refresh_token_id,
                       AccessTokenID |-> o.access_token_id,
                       RefreshTokenExpiresAt |-> UnmarshalTime(o.refresh_token_expires_at),
                       AccessTokenExpiresAt |-> UnmarshalTime(o.access_token_expires_at)]],
                 RevokedRefreshTokensID |-> body.revoked_access_tokens_id,
                 RevokedAccessTokensID |-> body.revoked_refresh_tokens_id]]

\* json.Unmarshal of a body into a TokensMessage
Unmarshal(body) ==
  IF body.syntax # "object" THEN [err |-> "SyntaxError", msg |-> NoMessage]
  ELSE [err |-> "nil",
        msg |-> [IssuedTokenPairs |->
                   [k \in 1..Len(body.issued_token_pairs) |->
                      LET o == body.issued_token_pairs[k] IN
                      [RefreshTokenID |-> o.refresh_token_id,
                       AccessTokenID |-> o.access_token_id,
                       RefreshTokenExpiresAt |-> UnmarshalTime(o.refresh_token_expires_at),
                       AccessTokenExpiresAt |-> UnmarshalTime(o.access_token_expires_at)]],
                 RevokedRefreshTokensID |-> body.revoked_refresh_tokens_id,
                 RevokedAccessTokensID |-> body.revoked_access_tokens_id]]

\* the messages published to the replica: a pair issued, and the pair revoked
PublishedMessages ==
  {[IssuedTokenPairs |-> <<TokenPair("r1", "a1", MaxTime)>>, RevokedRefreshTokensID |-> <<>>,
    RevokedAccessTokensID |-> <<>>],
   [IssuedTokenPairs |-> <<>>, RevokedRefreshTokensID |-> <<"r1">>,
    RevokedAccessTokensID |-> <<"a1">>]}

\* the bodies a delivery can carry
Bodies == {Marshal(m) : m \in PublishedMessages} \cup {Undecodable}

\* NewDefaultTokensMessagesConsumer: the capacity of tokensMessagesCh
BufferSize(bufferSize) ==
  IF bufferSize <= 0 THEN DefaultTokensMessageConsumerChannelBufferSize ELSE bufferSize

\* both tasks of Start are running
Running == start.pc = "wait"

\* Start calls CreateTokensMessagesConsumer: with d.mutex held it calls d.Open(), which
\* locks d.mutex, when the consumer's channel is not open
StartCreate ==
  /\ start.pc = "create"
  /\ start' = [start EXCEPT !.pc = IF start.opened THEN "wait" ELSE "locked"]
  /\ UNCHANGED <<published, delivered, deliveryClosed, ctxDone, consumer, received>>
  /\ UNCHANGED <<storeVars, validatorVars, serviceVars, publisherVars>>
  /\ UNCHANGED libraryVars

\* the caller cancels the context it gave to Start
Cancel ==
  /\ ~ctxDone
  /\ ctxDone' = TRUE
  /\ UNCHANGED <<published, delivered, deliveryClosed, start, consumer, received>>
  /\ UNCHANGED <<storeVars, validatorVars, serviceVars, publisherVars>>
  /\ UNCHANGED libraryVars

\* ConsumeWithContext: once the context is done the consumer is cancelled and its
\* delivery channel closed
DeliveryClose ==
  /\ start.pc \notin {"create", "locked"}
  /\ ctxDone /\ ~deliveryClosed
  /\ deliveryClosed' = TRUE
  /\ UNCHANGED <<published, delivered, ctxDone, start, consumer, received>>
  /\ UNCHANGED <<storeVars, validatorVars, serviceVars, publisherVars>>
  /\ UNCHANGED libraryVars

\* ConsumeTokensMessages, the select: case <-ctx.Done()
ConsumerCtxDone ==
  /\ Running /\ consumer.pc = "select" /\ ctxDone
  /\ consumer' = [consumer EXCEPT !.pc = "returned", !.err = "context canceled"]
  /\ UNCHANGED <<published, delivered, deliveryClosed, ctxDone, start, received>>
  /\ UNCHANGED <<storeVars, validatorVars, serviceVars, publisherVars>>
  /\ UNCHANGED libraryVars

\* ConsumeTokensMessages, the select: case <-ticker.C
ConsumerTick ==
  /\ Running /\ consumer.pc = "select"
  /\ consumer' = [consumer EXCEPT !.pc = "range"]
  /\ UNCHANGED <<published, delivered, deliveryClosed, ctxDone, start, received>>
  /\ UNCHANGED <<storeVars, validatorVars, serviceVars, publisherVars>>
  /\ UNCHANGED libraryVars

\* a drain that returns the decoding error instead of skipping the delivery
ConsumerDeliverStopsOnError ==
  /\ consumer.pc = "range" /\ ~deliveryClosed /\ delivered < Len(published)
  /\ delivered' = delivered + 1
  /\ LET parsed == Unmarshal(published[delivered + 1]) IN
     consumer' = IF parsed.err # "nil"
                 THEN [consumer EXCEPT !.pc = "returned", !.err = parsed.err]
                 ELSE [consumer EXCEPT !.pc = "send", !.msg = parsed.msg]
  /\ UNCHANGED <<published, deliveryClosed, ctxDone, start, received>>
  /\ UNCHANGED <<storeVars, validatorVars, serviceVars, publisherVars>>
  /\ UNCHANGED libraryVars

\* for msg := range d.deliveryCh: the next delivery, decoded; an undecodable one is skipped
ConsumerDeliver ==
  /\ consumer.pc = "range" /\ ~deliveryClosed /\ delivered < Len(published)
  /\ delivered' = delivered + 1
  /\ LET parsed == Unmarshal(published[delivered + 1]) IN
     consumer' = IF parsed.err # "nil" THEN consumer
                 ELSE [consumer EXCEPT !.pc = "send", !.msg = parsed.msg]
  /\ UNCHANGED <<published, deliveryClosed, ctxDone, start, received>>
  /\ UNCHANGED <<storeVars, validatorVars, serviceVars, publisherVars>>
  /\ UNCHANGED libraryVars

\* for msg := range d.deliveryCh: the channel is closed, the loop ends
ConsumerRangeEnd ==
  /\ consumer.pc = "range" /\ deliveryClosed
  /\ consumer' = [consumer EXCEPT !.pc = "select"]
  /\ UNCHANGED <<published, delivered, deliveryClosed, ctxDone, start, received>>
  /\ UNCHANGED <<storeVars, validatorVars, serviceVars, publisherVars>>
  /\ UNCHANGED libraryVars

\* a send that gives the message up when the buffer is full
ConsumerSendDropsWhenFull ==
  /\ consumer.pc = "send"
  /\ queue' = IF Len(queue) < BufferSize(start.size) THEN Append(queue, consumer.msg)
               ELSE queue
  /\ consumer' = [consumer EXCEPT !.pc = "range", !.msg = NoMessage]
  /\ UNCHANGED <<published, delivered, deliveryClosed, ctxDone, start, received>>
  /\ UNCHANGED <<storeVars, validatorVars, svc, publisherVars>>
  /\ UNCHANGED libraryVars

\* d.tokensMessagesCh <- parsedMsg: waits while the buffer is full
ConsumerSend ==
  /\ consumer.pc = "send" /\ Len(queue) < BufferSize(start.size)
  /\ queue' = Append(queue, consumer.msg)
  /\ consumer' = [consumer EXCEPT !.pc = "range", !.msg = NoMessage]
  /\ UNCHANGED <<published, delivered, deliveryClosed, ctxDone, start, received>>
  /\ UNCHANGED <<storeVars, validatorVars, svc, publisherVars>>
  /\ UNCHANGED libraryVars

\* Start, the select of the second task: case <-ctx.Done()
ServiceCtxDone ==
  /\ Running /\ svc.pc = "recv" /\ ctxDone
  /\ svc' = [svc EXCEPT !.pc = "stopped"]
  /\ UNCHANGED <<storeVars, validatorVars, queue, messagingVars>>
  /\ UNCHANGED libraryVars

\* a store call of the second task on the relational backend: TokenValidator.DB()
\* locks t.mutex and calls itself
ServiceSqliteDB ==
  /\ backend = "sqlite" /\ ~mutex
  /\ svc.pc \in {"addRefresh", "addAccess", "revokedRefresh", "revokedAccess",
                 "revokedAccessAgain"}
  /\ mutex' = TRUE
  /\ UNCHANGED <<backend, now, hist, call, before, cache, getPurges, kv, refresh_tokens,
                 access_tokens>>
  /\ UNCHANGED <<validatorVars, serviceVars, messagingVars>>
  /\ UNCHANGED libraryVars

\* the error a task of the group returned
TaskError(task) == IF task = "consume" THEN consumer.err ELSE svc.err

\* errgroup.Group.Go: a task has returned; the first error that is not nil is kept
GroupDone(task) ==
  /\ Running /\ task \notin start.done
  /\ IF task = "consume" THEN consumer.pc = "returned" ELSE svc.pc = "stopped"
  /\ start' = [start EXCEPT !.done = start.done \cup {task},
                            !.err = IF start.err = "nil" THEN TaskError(task) ELSE start.err]
  /\ UNCHANGED <<published, delivered, deliveryClosed, ctxDone, consumer, received>>
  /\ UNCHANGED <<storeVars, validatorVars, serviceVars, publisherVars>>
  /\ UNCHANGED libraryVars

\* eg.Wait() returns once both tasks have, and Start returns its error
StartWait ==
  /\ Running /\ start.done = {"consume", "apply"}
  /\ start' = [start EXCEPT !.pc = "returned"]
  /\ UNCHANGED <<published, delivered, deliveryClosed, ctxDone, consumer, received>>
  /\ UNCHANGED <<storeVars, validatorVars, serviceVars, publisherVars>>
  /\ UNCHANGED libraryVars

(* ------------------------------ publisher ------------------------------ *)

\* the goroutines that call one publisher
PublisherThreads == {"t1", "t2"}

\* the most calls one goroutine makes
MaxCalls == 2

\* the sync watermark: the largest clock reading passed to an update, the most rows
MaxStamp == 3
MaxRows == 4

\* the most pieces of a metadata value
MaxPieces == 4

\* a goroutine calls Open, Close or PublishTokensMessage with a message that is not nil
PubCall(t, op, msg) ==
  /\ pthreads[t].pc \in {"idle", "returned"} /\ pthreads[t].n < MaxCalls
  /\ pthreads' = [pthreads EXCEPT ![t] = [op |-> op, pc |-> "lock", err |-> "nil",
                                          msg |-> msg, n |-> pthreads[t].n + 1]]
  /\ UNCHANGED <<pmutex, pch, psent>>
  /\ UNCHANGED <<storeVars, validatorVars, serviceVars, pipelineVars>>
  /\ UNCHANGED libraryVars

\* d.mutex.Lock() at the top of the method
PubLock(t) ==
  /\ pthreads[t].pc = "lock" /\ pmutex = "free"
  /\ pmutex' = t
  /\ pthreads' = [pthreads EXCEPT ![t].pc = "locked"]
  /\ UNCHANGED <<pch, psent>>
  /\ UNCHANGED <<storeVars, validatorVars, serviceVars, pipelineVars>>
  /\ UNCHANGED libraryVars

\* what the broker answers to an Open: both steps succeed, conn.Channel() fails, or the
\* channel is created and DeclareTokensMessageQueue fails
OpenOutcomes == {"ok", "channel fails", "declare fails"}

\* Open with the mutex held: nothing to do when d.ch is set; else conn.Channel(), d.ch = ch,
\* and the queue declared; an error of either step is returned; the deferred Unlock runs
PubOpen(t) ==
  /\ pthreads[t].op = "Open" /\ pthreads[t].pc = "locked"
  /\ \E outcome \in (IF pch # "nil" THEN {"ok"} ELSE OpenOutcomes) :
       /\ pch' = IF pch # "nil" THEN pch
                 ELSE IF outcome = "ok" THEN "open"
                 ELSE IF outcome = "channel fails" THEN "nil"
                 ELSE "undeclared"
       /\ pthreads' = [pthreads EXCEPT ![t].pc = "returned",
                                       ![t].err = IF outcome = "ok" THEN "nil" ELSE outcome]
  /\ pmutex' = "free"
  /\ UNCHANGED psent
  /\ UNCHANGED <<storeVars, validatorVars, serviceVars, pipelineVars>>
  /\ UNCHANGED libraryVars

\* Close with the mutex held: nothing to do without a channel, else d.ch.Close()
PubCloseChannel(t) ==
  /\ pthreads[t].op = "Close" /\ pthreads[t].pc = "locked"
  /\ IF pch = "nil"
     THEN /\ pmutex' = "free"
          /\ pthreads' = [pthreads EXCEPT ![t].pc = "returned"]
          /\ UNCHANGED pch
     ELSE /\ pch' = "closed"
          /\ pthreads' = [pthreads EXCEPT ![t].pc = "clear"]
          /\ UNCHANGED pmutex
  /\ UNCHANGED psent
  /\ UNCHANGED <<storeVars, validatorVars, serviceVars, pipelineVars>>
  /\ UNCHANGED libraryVars

\* Close: d.ch = nil, and the deferred Unlock runs
PubCloseClear(t) ==
  /\ pthreads[t].pc = "clear"
  /\ pch' = "nil"
  /\ pmutex' = "free"
  /\ pthreads' = [pthreads EXCEPT ![t].pc = "returned"]
  /\ UNCHANGED psent
  /\ UNCHANGED <<storeVars, validatorVars, serviceVars, pipelineVars>>
  /\ UNCHANGED libraryVars

\* PublishTokensMessage with the mutex held: without a channel it calls d.Open(), whose
\* d.mutex.Lock() waits for the mutex this goroutine holds; with one it unlocks
PubEnsureOpen(t) ==
  /\ pthreads[t].op = "Publish" /\ pthreads[t].pc = "locked"
  /\ IF pch = "nil"
     THEN /\ pthreads' = [pthreads EXCEPT ![t].pc = "Open"]
          /\ UNCHANGED pmutex
     ELSE /\ pthreads' = [pthreads EXCEPT ![t].pc = "publish"]
          /\ pmutex' = "free"
  /\ UNCHANGED <<pch, psent>>
  /\ UNCHANGED <<storeVars, validatorVars, serviceVars, pipelineVars>>
  /\ UNCHANGED libraryVars

\* PublishTokensMessage after the Unlock: json.Marshal, then d.ch.Publish on whatever
\* d.ch is by now: a nil channel panics, a closed one answers ErrClosed; on a channel whose
\* queue was not declared the body goes out under the queue name the publisher holds and
\* reaches no queue of this Open
PubPublish(t) ==
  /\ pthreads[t].pc = "publish"
  /\ pthreads' = [pthreads EXCEPT ![t].pc = IF pch = "nil" THEN "panic" ELSE "returned",
                                  ![t].err = IF pch = "closed" THEN "ErrClosed" ELSE "nil"]
  /\ psent' = IF pch = "open" THEN Append(psent, Marshal(pthreads[t].msg)) ELSE psent
  /\ UNCHANGED <<pmutex, pch>>
  /\ UNCHANGED <<storeVars, validatorVars, serviceVars, pipelineVars>>
  /\ UNCHANGED libraryVars

(* --------------------------- the sync watermark ------------------------- *)

\* time.Time{}: the zero time, which is no time.Unix(sec, 0) of a stored row
ZeroTime == [zero |-> TRUE, unix |-> 0]

\* time.Unix(sec, 0)
TimeUnix(sec) == [zero |-> FALSE, unix |-> sec]

\* the clock readings a caller passes to UpdateLastSyncTokensUpdateAt
SyncTimes == 1..MaxStamp

\* UpdateLastSyncTokensUpdatedAtQuery: INSERT INTO sync_tokens (updated_at) VALUES (?)
UpdateLastSyncTokensUpdatedAtQuery(rows, updatedAt) == Append(rows, updatedAt)

\* a query that returns the row inserted last
GetNewestRowQuery(rows) ==
  IF rows = <<>> THEN <<>> ELSE <<rows[Len(rows)]>>

\* GetLastSyncTokensUpdatedAtQuery: SELECT updated_at ... ORDER BY updated_at DESC LIMIT 1: the
\* rows it returns, not one when the table is empty
GetLastSyncTokensUpdatedAtQuery(rows) ==
  IF rows = <<>> THEN <<>>
  ELSE <<CHOOSE v \in {rows[k] : k \in 1..Len(rows)} : \A k \in 1..Len(rows) : rows[k] <= v>>

\* Service.UpdateLastSyncTokensUpdateAt(updatedAt): inserts updatedAt.Unix()-1
UpdateLastSyncTokensUpdateAt(updatedAt) ==
  /\ Len(sync_tokens) < MaxRows
  /\ sync_tokens' = UpdateLastSyncTokensUpdatedAtQuery(sync_tokens, updatedAt - 1)
  /\ args' = [op |-> "Update", updatedAt |-> updatedAt]
  /\ UNCHANGED <<out, carrier>>
  /\ UNCHANGED <<storeVars, validatorVars, serviceVars, messagingVars>>

\* Service.GetLastSyncTokensUpdatedAt: row.Scan answers sql.ErrNoRows when the query returned
\* no row, and the method returns that error; a row is returned as time.Unix(updated_at, 0)
GetLastSyncTokensUpdatedAt ==
  LET row == GetLastSyncTokensUpdatedAtQuery(sync_tokens) IN
  /\ args' = [op |-> "Get", updatedAt |-> 0]
  /\ out' = IF row = <<>> THEN [time |-> ZeroTime, err |-> "sql: no rows in result set"]
            ELSE [time |-> TimeUnix(row[1]), err |-> "nil"]
  /\ UNCHANGED <<sync_tokens, carrier>>
  /\ UNCHANGED <<storeVars, validatorVars, serviceVars, messagingVars>>

(* ----------------------------- key derivation --------------------------- *)

\* ids without the separator, among them the empty id and ids that look like prefixes
KeyIds == {"", "r1", "P", "RT", "prt"}

\* the pairs of (kind, id) whose keys are compared
KeyArgs == [k1 : TokenKinds \cup {OtherToken}, i1 : KeyIds, k2 : TokenKinds \cup {OtherToken}, i2 : KeyIds]

\* the keys both backends derive for the two pairs, and the parent-link keys of the two ids
DeriveKeys ==
  /\ out = NotCalled
  /\ out' = [called |-> TRUE,
             redis |-> <<GetKey(args.k1, args.i1), GetKey(args.k2, args.i2)>>,
             cache |-> <<GetTokenKey(args.k1, args.i1), GetTokenKey(args.k2, args.i2)>>,
             redisParent |-> {RedisGetParentRefreshTokenKey(args.i1),
                              RedisGetParentRefreshTokenKey(args.i2)},
             cacheParent |-> {GetParentRefreshTokenKey(args.i1),
                              GetParentRefreshTokenKey(args.i2)}]
  /\ UNCHANGED <<sync_tokens, args, carrier>>
  /\ UNCHANGED <<storeVars, validatorVars, serviceVars, messagingVars>>

(* ------------------------- the bearer metadata parser ------------------- *)

\* gojwtgrpc.TokenIdx
TokenIdx == 0

AuthorizationMetadataKey == "authorization"

BearerPrefix == "Bearer"

\* a metadata value is a sequence of pieces: a word, or the single space
Pieces == {"Bearer", "bearer", "abc", " "}

\* the metadata values drawn: up to MaxPieces pieces
MetadataValues == UNION {[1..n -> Pieces] : n \in 0..MaxPieces}

\* the metadata drawn: no entry under the key, one value, or a second value after it
Metadata ==
  {<<>>} \cup {<<v>> : v \in MetadataValues} \cup {<<v, <<"Bearer", " ", "abc">>>> : v \in MetadataValues}

\* the pieces written one after the other
RECURSIVE Concat(_)
Concat(s) == IF s = <<>> THEN "" ELSE Head(s) \o Concat(Tail(s))

\* strings.Fields: the words between runs of spaces
RECURSIVE Fields(_, _)
Fields(s, sep) ==
  IF s = <<>> THEN <<>>
  ELSE IF Head(s) = sep THEN Fields(Tail(s), sep)
  ELSE LET rest == Fields(Tail(s), sep) IN
       IF Len(s) > 1 /\ s[2] # sep THEN <<Head(s) \o rest[1]>> \o Tail(rest)
       ELSE <<Head(s)>> \o rest

\* strings.Split(s, sep): one field more than there are separators, empty fields included
RECURSIVE Split(_, _)
Split(s, sep) ==
  IF s = <<>> THEN <<"">>
  ELSE LET rest == Split(Tail(s), sep) IN
       IF Head(s) = sep THEN <<"">> \o rest
       ELSE <<Head(s) \o rest[1]>> \o Tail(rest)

\* metadata.MD.Get(key): the values under the key, none when there is no entry
MDGet(md, key) == IF key = AuthorizationMetadataKey THEN md ELSE <<>>

\* GetTokenFromMetadata(md, tokenKey)
GetTokenFromMetadata(md, tokenKey) ==
  LET authorization == MDGet(md, tokenKey) IN
  IF Len(authorization) <= TokenIdx
  THEN [token |-> "", err |-> "AuthorizationMetadataNotProvidedError"]
  ELSE LET authorizationFields == Split(authorization[TokenIdx + 1], " ") IN
       IF Len(authorizationFields) # 2 \/ authorizationFields[1] # BearerPrefix
       THEN [token |-> "", err |-> "AuthorizationMetadataInvalidError"]
       ELSE [token |-> authorizationFields[2], err |-> "nil"]

\* GetAuthorizationTokenFromMetadata(md), called once on the metadata of the request
GetAuthorizationTokenFromMetadata ==
  /\ out = NotCalled
  /\ out' = [called |-> TRUE] @@ GetTokenFromMetadata(args, AuthorizationMetadataKey)
  /\ UNCHANGED <<sync_tokens, args, carrier>>
  /\ UNCHANGED <<storeVars, validatorVars, serviceVars, messagingVars>>

(* --------------------------- transport adapters ------------------------- *)

Adapters == {"http", "grpc", "gin"}

\* the context keys and the raw tokens the callers pass
CtxKeys == {"refresh", "access"}
CtxTokens == {"", "t1", "t2"}

\* context.WithValue / gin.Context.Set: the carrier with the value under the key
WithValue(c, key, value) == [k \in DOMAIN c \cup {key} |-> IF k = key THEN value ELSE c[k]]

\* what the adapter's setter returned
SetResult(key, token, err) == [called |-> TRUE, op |-> "Set", key |-> key, token |-> token, err |-> err]

\* net/http SetCtxToken(r, key, token): refuses the empty token, else returns the request
\* with the token in its context
HttpSetCtxToken(key, token) ==
  /\ args = "http"
  /\ IF token = ""
     THEN /\ out' = SetResult(key, token, "ErrEmptyToken")
          /\ UNCHANGED carrier
     ELSE /\ out' = SetResult(key, token, "nil")
          /\ carrier' = WithValue(carrier, key, token)
  /\ UNCHANGED <<sync_tokens, args>>
  /\ UNCHANGED <<storeVars, validatorVars, serviceVars, messagingVars>>

\* grpc SetCtxToken(ctx, key, token): returns context.WithValue(ctx, key, token)
GrpcSetCtxToken(key, token) ==
  /\ args = "grpc"
  /\ out' = SetResult(key, token, "nil")
  /\ carrier' = WithValue(carrier, key, token)
  /\ UNCHANGED <<sync_tokens, args>>
  /\ UNCHANGED <<storeVars, validatorVars, serviceVars, messagingVars>>

\* gin SetCtxToken(ctx, key, token): ctx.Set(key, token)
GinSetCtxToken(key, token) ==
  /\ args = "gin"
  /\ out' = SetResult(key, token, "nil")
  /\ carrier' = WithValue(carrier, key, token)
  /\ UNCHANGED <<sync_tokens, args>>
  /\ UNCHANGED <<storeVars, validatorVars, serviceVars, messagingVars>>

\* GetCtxToken(carrier, key) of the three adapters: no value under the key is the missing
\* token error, a value is returned as it is
GetCtxToken(key) ==
  /\ out' = IF key \in DOMAIN carrier
            THEN [called |-> TRUE, op |-> "Get", key |-> key, token |-> carrier[key], err |-> "nil"]
            ELSE [called |-> TRUE, op |-> "Get", key |-> key, token |-> "", err |-> "ErrMissingToken"]
  /\ UNCHANGED <<sync_tokens, args, carrier>>
  /\ UNCHANGED <<storeVars, validatorVars, serviceVars, messagingVars>>

(* -------------------------------- clock -------------------------------- *)

Tick ==
  /\ now < MaxTime
  /\ now' = now + 1
  /\ kv' = KvExpire(kv, now + 1)
  /\ UNCHANGED <<backend, before, hist, call, cache, getPurges, refresh_tokens, access_tokens, mutex>>
  /\ UNCHANGED validatorVars
  /\ UNCHANGED messagingVars
  /\ UNCHANGED libraryVars
  /\ UNCHANGED serviceVars

\* the clock of the validator
ValidatorTick ==
  /\ now < MaxTime
  /\ now' = now + 1
  /\ UNCHANGED <<backend, before, hist, call, cache, getPurges, kv, refresh_tokens,
                 access_tokens, mutex>>
  /\ UNCHANGED validatorVars
  /\ UNCHANGED messagingVars
  /\ UNCHANGED libraryVars
  /\ UNCHANGED serviceVars

(* ---------------------------- specification ---------------------------- *)

Empty == [k \in {} |-> 0]

\* no broker, no consumer, no publisher
NoPipeline ==
  /\ published = <<>>
  /\ delivered = 0
  /\ deliveryClosed = FALSE
  /\ ctxDone = FALSE
  /\ start = [pc |-> "create", opened |-> FALSE, size |-> 0, done |-> {}, err |-> "nil"]
  /\ consumer = [pc |-> "select", msg |-> NoMessage, err |-> "nil"]
  /\ received = <<>>

NoPublisher ==
  /\ pmutex = "free"
  /\ pch = "nil"
  /\ pthreads = Empty
  /\ psent = <<>>

NoMessaging == NoPipeline /\ NoPublisher

\* no library function has been called, the watermark log and the carrier are empty
NoLibrary ==
  /\ sync_tokens = <<>>
  /\ args = <<>>
  /\ out = NotCalled
  /\ carrier = <<>>

Init ==
  /\ backend \in Backends
  /\ now = 0
  /\ hist = <<>>
  /\ call = Idle
  /\ before = Empty
  /\ cache = Empty
  /\ getPurges \in (IF backend = "cache" THEN BOOLEAN ELSE {FALSE})
  /\ kv = Empty
  /\ refresh_tokens = Empty
  /\ access_tokens = Empty
  /\ mutex = FALSE
  /\ mode = "prod"
  /\ store = Empty
  /\ result = NoResult
  /\ queue = <<>>
  /\ svc = NotStarted
  /\ NoMessaging
  /\ NoLibrary

Next ==
  \/ Tick
  \/ \E id \in RefreshIds, e \in Expiries : CacheAddRefresh(id, e)
  \/ \E id \in AccessIds, p \in RefreshIds, e \in Expiries : CacheAddAccess(id, p, e)
  \/ \E id \in RefreshIds : CacheRevoke(RefreshToken, id)
  \/ \E id \in AccessIds : CacheRevoke(AccessToken, id)
  \/ CacheRevokeLookup
  \/ CacheRevokeChild
  \/ \E id \in RefreshIds, e \in Expiries : RedisAddRefresh(id, e)
  \/ \E id \in AccessIds, p \in RefreshIds, e \in Expiries : RedisAddAccess(id, p, e)
  \/ RedisAddAccessSet
  \/ \E id \in RefreshIds : RedisRevoke(RefreshToken, id)
  \/ \E id \in AccessIds : RedisRevoke(AccessToken, id)
  \/ RedisRevokeSet
  \/ RedisExpire
  \/ RedisRevokeLink
  \/ RedisRevokeChildTTL
  \/ RedisRevokeChildSet
  \/ \E id \in RefreshIds, e \in Expiries : SqliteCall("AddRefresh", RefreshToken, id, "", e)
  \/ \E id \in AccessIds, p \in RefreshIds, e \in Expiries :
       SqliteCall("AddAccess", AccessToken, id, p, e)
  \/ \E id \in RefreshIds : SqliteCall("Revoke", RefreshToken, id, "", 0)
  \/ \E id \in AccessIds : SqliteCall("Revoke", AccessToken, id, "", 0)
  \/ SqliteDB

Spec == Init /\ [][Next]_vars

\* the callers of the key/value backend alone
InitKeyValue == Init /\ backend = "redis"

NextKeyValue ==
  \/ Tick
  \/ \E id \in RefreshIds, e \in Expiries : RedisAddRefresh(id, e)
  \/ \E id \in AccessIds, p \in RefreshIds, e \in Expiries : RedisAddAccess(id, p, e)
  \/ RedisAddAccessSet
  \/ \E id \in RefreshIds : RedisRevoke(RefreshToken, id)
  \/ \E id \in AccessIds : RedisRevoke(AccessToken, id)
  \/ RedisRevokeSet
  \/ RedisExpire
  \/ RedisRevokeLink
  \/ RedisRevokeChildTTL
  \/ RedisRevokeChildSet

SpecKeyValue == InitKeyValue /\ [][NextKeyValue]_vars

\* the callers of the three backends that add records and revoke access tokens
NextRevokeAccess ==
  \/ Tick
  \/ \E id \in RefreshIds, e \in Expiries : CacheAddRefresh(id, e)
  \/ \E id \in AccessIds, p \in RefreshIds, e \in Expiries : CacheAddAccess(id, p, e)
  \/ \E id \in AccessIds : CacheRevoke(AccessToken, id)
  \/ \E id \in RefreshIds, e \in Expiries : RedisAddRefresh(id, e)
  \/ \E id \in AccessIds, p \in RefreshIds, e \in Expiries : RedisAddAccess(id, p, e)
  \/ RedisAddAccessSet
  \/ \E id \in AccessIds : RedisRevoke(AccessToken, id)
  \/ RedisRevokeSet
  \/ RedisExpire
  \/ \E id \in RefreshIds, e \in Expiries : SqliteCall("AddRefresh", RefreshToken, id, "", e)
  \/ \E id \in AccessIds, p \in RefreshIds, e \in Expiries :
       SqliteCall("AddAccess", AccessToken, id, p, e)
  \/ \E id \in AccessIds : SqliteCall("Revoke", AccessToken, id, "", 0)
  \/ SqliteDB

SpecRevokeAccess == Init /\ [][NextRevokeAccess]_vars

\* the validator over a store that answers as `store` says
InitValidator ==
  /\ backend = "cache"
  /\ now = 0
  /\ hist = <<>>
  /\ call = Idle
  /\ before = Empty
  /\ cache = Empty
  /\ getPurges = FALSE
  /\ kv = Empty
  /\ refresh_tokens = Empty
  /\ access_tokens = Empty
  /\ mutex = FALSE
  /\ mode \in {"debug", "prod"}
  /\ store \in [TokenKinds \X JtiStrings -> StoreAnswers]
  /\ result = NoResult
  /\ queue = <<>>
  /\ svc = NotStarted
  /\ NoMessaging
  /\ NoLibrary

NextValidator ==
  \/ ValidatorTick
  \/ \E raw \in RawTokens, token \in TokenKinds : Validate(raw, token)

SpecValidator == InitValidator /\ [][NextValidator]_vars

\* the service over the cache or the key/value backend, with the channel filled
InitService ==
  /\ backend \in {"cache", "redis"}
  /\ now = 0
  /\ hist = <<>>
  /\ call = Idle
  /\ before = Empty
  /\ cache = Empty
  /\ getPurges \in (IF backend = "cache" THEN BOOLEAN ELSE {FALSE})
  /\ kv = Empty
  /\ refresh_tokens = Empty
  /\ access_tokens = Empty
  /\ mutex = FALSE
  /\ mode = "prod"
  /\ store = Empty
  /\ result = NoResult
  /\ queue \in UNION {[1..n -> Messages] : n \in 1..MaxMsgs}
  /\ svc = NotStarted
  /\ NoMessaging
  /\ NoLibrary

NextService ==
  \/ ServiceTick
  \/ ServiceReceive
  \/ ServiceAddRefreshToken
  \/ ServiceAddAccessToken
  \/ ServiceRevokeRefresh
  \/ ServiceRevokeAccess
  \/ ServiceRevokeAccessAgain

SpecService == InitService /\ [][NextService]_vars

\* the replica: broker, consumer and service over one of the backends
InitPipeline ==
  /\ backend \in Backends
  /\ now = 0
  /\ hist = <<>>
  /\ call = Idle
  /\ before = Empty
  /\ cache = Empty
  /\ getPurges = FALSE
  /\ kv = Empty
  /\ refresh_tokens = Empty
  /\ access_tokens = Empty
  /\ mutex = FALSE
  /\ mode = "prod"
  /\ store = Empty
  /\ result = NoResult
  /\ queue = <<>>
  /\ svc = NotStarted
  /\ published \in UNION {[1..n -> Bodies] : n \in 1..MaxDeliveries}
  /\ delivered = 0
  /\ deliveryClosed = FALSE
  /\ ctxDone = FALSE
  /\ start \in [pc : {"create"}, opened : BOOLEAN, size : 0..MaxBufferSize, done : {{}},
                err : {"nil"}]
  /\ consumer = [pc |-> "select", msg |-> NoMessage, err |-> "nil"]
  /\ received = <<>>
  /\ NoPublisher
  /\ NoLibrary

NextPipeline ==
  \/ ServiceTick
  \/ StartCreate
  \/ Cancel
  \/ DeliveryClose
  \/ ConsumerCtxDone
  \/ ConsumerTick
  \/ ConsumerDeliver
  \/ ConsumerRangeEnd
  \/ ConsumerSend
  \/ ServiceReceive
  \/ ServiceCtxDone
  \/ ServiceAddRefreshToken
  \/ ServiceAddAccessToken
  \/ ServiceRevokeRefresh
  \/ ServiceRevokeAccess
  \/ ServiceRevokeAccessAgain
  \/ ServiceSqliteDB
  \/ \E task \in {"consume", "apply"} : GroupDone(task)
  \/ StartWait

SpecPipeline == InitPipeline /\ [][NextPipeline]_vars

\* every goroutine that can take a step takes one in the end, and a select whose
\* case is ready again and again takes it in the end; the caller need not cancel and
\* the clock need not advance
PipelineFairness ==
  /\ WF_vars(StartCreate)
  /\ WF_vars(DeliveryClose)
  /\ SF_vars(ConsumerCtxDone)
  /\ WF_vars(ConsumerTick)
  /\ WF_vars(ConsumerDeliver)
  /\ WF_vars(ConsumerRangeEnd)
  /\ WF_vars(ConsumerSend)
  /\ SF_vars(ServiceReceive)
  /\ SF_vars(ServiceCtxDone)
  /\ WF_vars(ServiceAddRefreshToken)
  /\ WF_vars(ServiceAddAccessToken)
  /\ WF_vars(ServiceRevokeRefresh)
  /\ WF_vars(ServiceRevokeAccess)
  /\ WF_vars(ServiceRevokeAccessAgain)
  /\ WF_vars(ServiceSqliteDB)
  /\ WF_vars(\E task \in {"consume", "apply"} : GroupDone(task))
  /\ WF_vars(StartWait)

SpecPipelineLive == SpecPipeline /\ PipelineFairness

\* one publisher, not opened, and the goroutines that call it
InitPublisher ==
  /\ backend = "cache"
  /\ now = 0
  /\ hist = <<>>
  /\ call = Idle
  /\ before = Empty
  /\ cache = Empty
  /\ getPurges = FALSE
  /\ kv = Empty
  /\ refresh_tokens = Empty
  /\ access_tokens = Empty
  /\ mutex = FALSE
  /\ mode = "prod"
  /\ store = Empty
  /\ result = NoResult
  /\ queue = <<>>
  /\ svc = NotStarted
  /\ NoPipeline
  /\ NoLibrary
  /\ pmutex = "free"
  /\ pch = "nil"
  /\ pthreads = [t \in PublisherThreads |->
                   [op |-> "none", pc |-> "idle", err |-> "nil", msg |-> NoMessage, n |-> 0]]
  /\ psent = <<>>

NextPublisher ==
  \E t \in PublisherThreads :
    \/ PubCall(t, "Open", NoMessage)
    \/ PubCall(t, "Close", NoMessage)
    \/ \E msg \in PublishedMessages : PubCall(t, "Publish", msg)
    \/ PubLock(t)
    \/ PubOpen(t)
    \/ PubCloseChannel(t)
    \/ PubCloseClear(t)
    \/ PubEnsureOpen(t)
    \/ PubPublish(t)

\* a goroutine inside a method of the publisher takes its next step when it can
SpecPublisher ==
  /\ InitPublisher /\ [][NextPublisher]_vars
  /\ \A t \in PublisherThreads :
       WF_vars(PubLock(t) \/ PubOpen(t) \/ PubCloseChannel(t) \/ PubCloseClear(t)
               \/ PubEnsureOpen(t) \/ PubPublish(t))

\* store calls that must come to their end: on the key/value backend with its server
\* down, and on the relational backend
InitCalls ==
  /\ backend \in {"redis", "sqlite"}
  /\ now = 0
  /\ hist = <<>>
  /\ call = Idle
  /\ before = Empty
  /\ cache = Empty
  /\ getPurges = FALSE
  /\ kv = Empty
  /\ refresh_tokens = Empty
  /\ access_tokens = Empty
  /\ mutex = FALSE
  /\ mode = "prod"
  /\ store = Empty
  /\ result = NoResult
  /\ queue = <<>>
  /\ svc = NotStarted
  /\ NoMessaging
  /\ NoLibrary

NextCalls ==
  \/ Tick
  \/ \E id \in RefreshIds, e \in Expiries :
       RedisCallServerDown("AddRefresh", RefreshToken, id, "", e)
  \/ \E id \in AccessIds, p \in RefreshIds, e \in Expiries :
       RedisCallServerDown("AddAccess", AccessToken, id, p, e)
  \/ \E op \in {"Revoke", "IsValid"}, p \in TokenRecords :
       RedisCallServerDown(op, p[1], p[2], "", 0)
  \/ \E id \in RefreshIds, e \in Expiries : SqliteCall("AddRefresh", RefreshToken, id, "", e)
  \/ \E id \in AccessIds, p \in RefreshIds, e \in Expiries :
       SqliteCall("AddAccess", AccessToken, id, p, e)
  \/ \E op \in {"Revoke", "IsValid"}, p \in TokenRecords : SqliteCall(op, p[1], p[2], "", 0)
  \/ SqliteDB

\* a call in flight takes its next step when it can
SpecCalls == InitCalls /\ [][NextCalls]_vars /\ WF_vars(SqliteDB)

\* the sync service after Connect: the table exists and holds no row
InitSync ==
  /\ backend = "sqlite"
  /\ now = 0
  /\ hist = <<>>
  /\ call = Idle
  /\ before = Empty
  /\ cache = Empty
  /\ getPurges = FALSE
  /\ kv = Empty
  /\ refresh_tokens = Empty
  /\ access_tokens = Empty
  /\ mutex = FALSE
  /\ mode = "prod"
  /\ store = Empty
  /\ result = NoResult
  /\ queue = <<>>
  /\ svc = NotStarted
  /\ NoMessaging
  /\ sync_tokens = <<>>
  /\ args = [op |-> "none", updatedAt |-> 0]
  /\ out = [time |-> ZeroTime, err |-> "none"]
  /\ carrier = <<>>

NextSync ==
  \/ \E t \in SyncTimes : UpdateLastSyncTokensUpdateAt(t)
  \/ GetLastSyncTokensUpdatedAt

SpecSync == InitSync /\ [][NextSync]_vars

\* a caller about to derive the keys of two (kind, id) pairs
InitKeys ==
  /\ backend \in {"cache", "redis"}
  /\ now = 0
  /\ hist = <<>>
  /\ call = Idle
  /\ before = Empty
  /\ cache = Empty
  /\ getPurges = FALSE
  /\ kv = Empty
  /\ refresh_tokens = Empty
  /\ access_tokens = Empty
  /\ mutex = FALSE
  /\ mode = "prod"
  /\ store = Empty
  /\ result = NoResult
  /\ queue = <<>>
  /\ svc = NotStarted
  /\ NoMessaging
  /\ sync_tokens = <<>>
  /\ args \in KeyArgs
  /\ out = NotCalled
  /\ carrier = <<>>

NextKeys == DeriveKeys

SpecKeys == InitKeys /\ [][NextKeys]_vars

\* a request arrives with some metadata
InitMetadata ==
  /\ backend = "cache"
  /\ now = 0
  /\ hist = <<>>
  /\ call = Idle
  /\ before = Empty
  /\ cache = Empty
  /\ getPurges = FALSE
  /\ kv = Empty
  /\ refresh_tokens = Empty
  /\ access_tokens = Empty
  /\ mutex = FALSE
  /\ mode = "prod"
  /\ store = Empty
  /\ result = NoResult
  /\ queue = <<>>
  /\ svc = NotStarted
  /\ NoMessaging
  /\ sync_tokens = <<>>
  /\ args \in Metadata
  /\ out = NotCalled
  /\ carrier = <<>>

NextMetadata == GetAuthorizationTokenFromMetadata

SpecMetadata == InitMetadata /\ [][NextMetadata]_vars

\* a request on one of the adapters, with nothing in its context
InitAdapters ==
  /\ backend = "cache"
  /\ now = 0
  /\ hist = <<>>
  /\ call = Idle
  /\ before = Empty
  /\ cache = Empty
  /\ getPurges = FALSE
  /\ kv = Empty
  /\ refresh_tokens = Empty
  /\ access_tokens = Empty
  /\ mutex = FALSE
  /\ mode = "prod"
  /\ store = Empty
  /\ result = NoResult
  /\ queue = <<>>
  /\ svc = NotStarted
  /\ NoMessaging
  /\ sync_tokens = <<>>
  /\ args \in Adapters
  /\ out = [called |-> FALSE, op |-> "none", key |-> "", token |-> "", err |-> "nil"]
  /\ carrier = Empty

NextAdapters ==
  \/ \E key \in CtxKeys, token \in CtxTokens : HttpSetCtxToken(key, token)
  \/ \E key \in CtxKeys, token \in CtxTokens : GrpcSetCtxToken(key, token)
  \/ \E key \in CtxKeys, token \in CtxTokens : GinSetCtxToken(key, token)
  \/ \E key \in CtxKeys : GetCtxToken(key)

SpecAdapters == InitAdapters /\ [][NextAdapters]_vars

\* the rows the token tables can hold when the validator connects to an existing database
StoredRefreshTokens == UNION {[ids -> Expiries] : ids \in SUBSET RefreshIds}
StoredAccessTokens ==
  UNION {[ids -> [parent : RefreshIds, expires_at : Expiries]] : ids \in SUBSET AccessIds}

\* the relational backend connected to a database that holds some rows
InitOtherKind ==
  /\ backend = "sqlite"
  /\ now = 0
  /\ hist = <<>>
  /\ call = Idle
  /\ before = Empty
  /\ cache = Empty
  /\ getPurges = FALSE
  /\ kv = Empty
  /\ refresh_tokens \in StoredRefreshTokens
  /\ access_tokens \in StoredAccessTokens
  /\ mutex = FALSE
  /\ mode = "prod"
  /\ store = Empty
  /\ result = NoResult
  /\ queue = <<>>
  /\ svc = NotStarted
  /\ NoMessaging
  /\ sync_tokens = <<>>
  /\ args = <<>>
  /\ out = [called |-> FALSE, valid |-> FALSE]
  /\ carrier = <<>>

NextOtherKind ==
  \E op \in {"Revoke", "IsValid"}, id \in RefreshIds \cup AccessIds :
    SqliteCallOtherKind(op, OtherToken, id)

SpecOtherKind == InitOtherKind /\ [][NextOtherKind]_vars

(* ------------------------- properties of the store ---------------------- *)

\* the i-th call from the end of hist (0: the last one)
FromEnd(i) == hist[Len(hist) - i]

\* hist ends with AddRefresh(r), AddAccess(a, parent r), Revoke(Refresh, r), all
\* returned, and both expiries are still in the future
CascadeCase(r, a) ==
  /\ backend \in {"cache", "redis"} /\ call.pc = "idle" /\ Len(hist) >= 3
  /\ FromEnd(2).op = "AddRefresh" /\ FromEnd(2).id = r /\ FromEnd(2).exp > now
  /\ FromEnd(1).op = "AddAccess" /\ FromEnd(1).id = a /\ FromEnd(1).parent = r
  /\ FromEnd(1).exp > now
  /\ FromEnd(0).op = "Revoke" /\ FromEnd(0).token = RefreshToken /\ FromEnd(0).id = r

\* C1: on the cache and key/value backends, once AddRefresh(r, tr), AddAccess(a, r, ta)
\* and Revoke(Refresh, r) have each returned, with tr and ta in the future,
\* IsValid(Refresh, r) is false and IsValid(Access, a) is false
C1_CascadeRevocation ==
  \A r \in RefreshIds, a \in AccessIds :
    CascadeCase(r, a) => ~IsValid(RefreshToken, r).valid /\ ~IsValid(AccessToken, a).valid

C1_Witness == \E r \in RefreshIds, a \in AccessIds : CascadeCase(r, a)

\* C2: on the cache and key/value backends, revoking refresh r invalidates every
\* access record whose parent is r: after AddRefresh(r), AddAccess(a1, r),
\* AddAccess(a2, r) with a1 # a2 and Revoke(Refresh, r), both a1 and a2 are invalid
C2_EveryChildRevoked ==
  \A r \in RefreshIds, a1 \in AccessIds, a2 \in AccessIds :
    ( /\ backend \in {"cache", "redis"} /\ call.pc = "idle" /\ Len(hist) >= 4
      /\ a1 # a2
      /\ FromEnd(3).op = "AddRefresh" /\ FromEnd(3).id = r /\ FromEnd(3).exp > now
      /\ FromEnd(2).op = "AddAccess" /\ FromEnd(2).id = a1 /\ FromEnd(2).parent = r
      /\ FromEnd(2).exp > now
      /\ FromEnd(1).op = "AddAccess" /\ FromEnd(1).id = a2 /\ FromEnd(1).parent = r
      /\ FromEnd(1).exp > now
      /\ FromEnd(0).op = "Revoke" /\ FromEnd(0).token = RefreshToken /\ FromEnd(0).id = r )
    => ~IsValid(AccessToken, a1).valid /\ ~IsValid(AccessToken, a2).valid

\* the call made last: the one in flight, else the last one that returned
LastCall ==
  IF call.pc # "idle" THEN [op |-> call.op, token |-> call.token, id |-> call.id, exp |-> call.exp]
  ELSE IF Len(hist) > 0
  THEN [op |-> FromEnd(0).op, token |-> FromEnd(0).token, id |-> FromEnd(0).id,
        exp |-> FromEnd(0).exp]
  ELSE [op |-> "", token |-> "", id |-> "", exp |-> 0]

\* C3: on each backend (cache, key/value, relational), once Add(k, i, t) with t later
\* than now is over -- AddAccess with any parent id, added before or not --
\* IsValid(k, i) returns true
C3_AddThenValid ==
  (Settled /\ LastCall.op \in {"AddRefresh", "AddAccess"} /\ LastCall.exp > now)
  => IsValid(LastCall.token, LastCall.id) = [returns |-> TRUE, valid |-> TRUE, err |-> "nil"]

\* the position in hist of the last Add of (kind, id) that returned without error, or 0
LastAdded(token, id) ==
  LET adds == {j \in 1..Len(hist) : /\ hist[j].op \in {"AddRefresh", "AddAccess"}
                                    /\ hist[j].token = token /\ hist[j].id = id
                                    /\ hist[j].err = "nil"}
  IN IF adds = {} THEN 0 ELSE CHOOSE j \in adds : \A k \in adds : k <= j

\* since (kind, id) was last added a Revoke of it, or of the refresh it was added
\* under, has returned without error
RevokedSince(token, id) ==
  LET j == LastAdded(token, id) IN
  /\ j > 0
  /\ \E k \in (j + 1)..Len(hist) :
       /\ hist[k].op = "Revoke" /\ hist[k].err = "nil"
       /\ \/ hist[k].token = token /\ hist[k].id = id
          \/ token = AccessToken /\ hist[k].token = RefreshToken /\ hist[k].id = hist[j].parent

\* C4: on the cache backend IsValid(k, i) returns true if and only if a record for
\* (k, i) exists, its expires_at is later than now, and it has not been revoked,
\* directly or by cascade, since it was last added
C4_ValidIffLiveAndUnrevoked ==
  (backend = "cache" /\ call.pc = "idle")
  => \A p \in TokenRecords :
       IsValid(p[1], p[2]).valid
         <=> ( /\ HasRecord(p[1], p[2])
               /\ cache[GetTokenKey(p[1], p[2]).val].expiresAt > now
               /\ ~RevokedSince(p[1], p[2]) )

\* C5: on every backend IsValid(k, i) for an id that has no record returns false
\* with no error
C5_AbsentIsFalseNoError ==
  \A p \in TokenRecords :
    ~HasRecord(p[1], p[2])
    => IsValid(p[1], p[2]) = [returns |-> TRUE, valid |-> FALSE, err |-> "nil"]

\* C6: on the cache and key/value backends a record that existed unexpired before
\* Revoke and is still there when Revoke has returned carries the expires_at it
\* had before: the record revoked, the access record revoked by cascade, and with
\* the clock advancing while Revoke runs
C6_RevokeKeepsExpiry ==
  ( /\ backend \in {"cache", "redis"} /\ call.pc = "idle" /\ Len(hist) > 0
    /\ FromEnd(0).op = "Revoke" )
  => \A p \in TokenRecords :
       (before[p] > 0 /\ RecordExpiry(p[1], p[2]) > 0) => RecordExpiry(p[1], p[2]) = before[p]

\* C7: on the cache backend, while Revoke(Refresh, r) is under way no IsValid sees
\* r already revoked and the access record linked to r still valid
C7_RevokeAtomic ==
  \A r \in RefreshIds :
    ( /\ backend = "cache" /\ call.op = "Revoke" /\ call.token = RefreshToken /\ call.id = r
      /\ call.pc \in {"parent", "child"}
      /\ ~IsValid(RefreshToken, r).valid
      /\ CacheGet(cache, now, GetParentRefreshTokenKey(r)).found )
    => ~IsValid(AccessToken, CacheGet(cache, now, GetParentRefreshTokenKey(r)).item.str).valid

(* ----------------------- properties of the validator -------------------- *)

\* the token parsed, was signed with Ed25519 and verified, passed the temporal
\* checks at clock reading t and carries a string jti
StepsPassed(raw, t) ==
  /\ ~raw.malformed /\ raw.alg = "EdDSA" /\ raw.sigOK
  /\ t < raw.exp /\ t >= raw.nbf
  /\ raw.jti.kind = "string"

\* what the store answers for the token kind and the jti of the validated token
Answer == store[<<result.token, result.raw.jti.str>>]

\* C8: ValidateClaims(rawToken, kind) returns claims only if the token parsed, was
\* signed with Ed25519 and verified, passed the temporal checks, carries a string
\* jti and the store answered true; when the store answers false the result is
\* ErrInvalidToken; the store is asked only after every earlier step has passed
C8_ValidateClaims ==
  result.done =>
    /\ result.claims
         => (StepsPassed(result.raw, result.at) /\ Answer = [valid |-> TRUE, err |-> "nil"])
    /\ result.consulted => StepsPassed(result.raw, result.at)
    /\ (result.consulted /\ Answer = [valid |-> FALSE, err |-> "nil"])
         => (~result.claims /\ result.err = {"ErrInvalidToken"})

C8_Witness ==
  /\ result.done /\ result.consulted /\ ~Answer.valid
  /\ result.err = {"ErrInvalidToken"}

\* the errors the validator is to hand on as they are
PassThrough ==
  {"ErrUnexpectedSigningMethod", "ErrTokenSignatureInvalid", "ErrTokenExpired",
   "ErrTokenNotValidYet", "ErrTokenMalformed"}

\* C9: in prod mode a parse or verification error that is one of unexpected signing
\* method, invalid signature, token expired, token not yet valid or malformed
\* token comes back as that error, not as ErrInvalidToken
C9_ProdPassThrough ==
  (result.done /\ mode = "prod")
  => \A e \in PassThrough :
       e \in JwtParse(result.raw, result.at).err
       => (e \in result.err /\ "ErrInvalidToken" \notin result.err)

\* what jwt.Parse and GetToken gave for the raw token the caller presented
Parsed == JwtParse(result.raw, result.at)
Got == GetToken(result.raw, result.at, mode)

\* C29: when ValidateClaims has run GetToken on a raw token: in prod mode an error of
\* jwt.Parse that is none of the errors to hand on comes back as ErrInvalidToken alone; in
\* either mode a token comes back with a nil error only when jwt.Parse found it valid, and
\* never a nil error without a token; in debug mode every error of jwt.Parse comes back as
\* it is
C29_ErrorSurfacing ==
  result.done =>
    /\ ~Got.ok => result.err = Got.err
    /\ (mode = "prod" /\ Parsed.err # NoError /\ Parsed.err \cap PassThrough = {})
         => (~Got.ok /\ Got.err = {"ErrInvalidToken"})
    /\ (Got.ok \/ Got.err = NoError) => (Got.ok /\ Got.err = NoError /\ Parsed.Valid /\ Parsed.err = NoError)
    /\ (mode = "debug" /\ Parsed.err # NoError) => (~Got.ok /\ Got.err = Parsed.err)

\* in prod mode a token naming a signing method the library does not know was refused
\* with ErrInvalidToken
C29_Witness ==
  /\ result.done /\ mode = "prod"
  /\ result.raw.alg \notin SigningMethods /\ ~result.raw.malformed
  /\ Parsed.err = {"ErrTokenUnverifiable"}
  /\ result.err = {"ErrInvalidToken"}

(* ------------------------ properties of the service --------------------- *)

\* the loop a store call of the service belongs to: 1 issued, 2 revoked refresh,
\* 3 revoked access
Pass(c) ==
  IF c.op \in {"AddRefresh", "AddAccess"} THEN 1
  ELSE IF c.token = RefreshToken THEN 2 ELSE 3

\* the calls the service made for the message in hand that belong to pass n
CallsOfPass(n) == SelectSeq(svc.applied, LAMBDA c : Pass(c) = n)

\* the calls the message asks for in its issued pairs, in order
IssuedCalls(msg) ==
  [k \in 1..(2 * Len(msg.IssuedTokenPairs)) |->
     LET pair == msg.IssuedTokenPairs[(k + 1) \div 2] IN
     IF k % 2 = 1
     THEN StoreCallOf("AddRefresh", RefreshToken, pair.RefreshTokenID, "",
                      pair.RefreshTokenExpiresAt)
     ELSE StoreCallOf("AddAccess", AccessToken, pair.AccessTokenID, pair.RefreshTokenID,
                      pair.AccessTokenExpiresAt)]

IsPrefix(a, b) == Len(a) <= Len(b) /\ \A k \in 1..Len(a) : a[k] = b[k]

\* the message in hand has been applied to its end
Applied == svc.pc = "recv" /\ svc.msg # NoMessage

\* C10: the service applies the records of a message in this order: for each issued
\* pair in list order AddRefresh then AddAccess, then Revoke(Refresh) for each
\* revoked refresh id, then Revoke(Access) for each revoked access id; and a
\* message that issues a pair and lists that pair's refresh id as revoked leaves
\* both records invalid
C10_MessageOrder ==
  /\ \A j \in 1..Len(svc.applied), k \in 1..Len(svc.applied) :
       j < k => Pass(svc.applied[j]) <= Pass(svc.applied[k])
  /\ IsPrefix(CallsOfPass(1), IssuedCalls(svc.msg))
  /\ IsPrefix([k \in 1..Len(CallsOfPass(2)) |-> CallsOfPass(2)[k].id],
              svc.msg.RevokedRefreshTokensID)
  /\ \A k \in 1..Len(CallsOfPass(3)) :
       \E j \in 1..Len(svc.msg.RevokedAccessTokensID) :
         CallsOfPass(3)[k].id = svc.msg.RevokedAccessTokensID[j]
  /\ Applied =>
       /\ CallsOfPass(1) = IssuedCalls(svc.msg)
       /\ Len(CallsOfPass(2)) = Len(svc.msg.RevokedRefreshTokensID)
       /\ \A j \in 1..Len(svc.msg.RevokedAccessTokensID) :
            \E k \in 1..Len(CallsOfPass(3)) :
              CallsOfPass(3)[k].id = svc.msg.RevokedAccessTokensID[j]
       /\ \A p \in 1..Len(svc.msg.IssuedTokenPairs), q \in 1..Len(svc.msg.RevokedRefreshTokensID) :
            LET pair == svc.msg.IssuedTokenPairs[p] IN
            pair.RefreshTokenID = svc.msg.RevokedRefreshTokensID[q]
            => /\ ~IsValid(RefreshToken, pair.RefreshTokenID).valid
               /\ ~IsValid(AccessToken, pair.AccessTokenID).valid

\* the store calls a message asks for: two for each issued pair, one for each revoked
\* refresh id, two for each revoked access id
RecordsOf(msg) ==
  2 * Len(msg.IssuedTokenPairs) + Len(msg.RevokedRefreshTokensID)
    + 2 * Len(msg.RevokedAccessTokensID)

\* C30: once a store call made for a message has failed, the service makes no further
\* store call and reads no further message: the calls made and the messages read stay as
\* they are, and the store changes only by the expiry of its entries
C30_FailureStopsApplying ==
  [][svc.err # "nil"
       => (/\ svc'.applied = svc.applied
           /\ received' = received
           /\ cache' = cache
           /\ kv' = KvExpire(kv, now'))]_vars

\* a store call has failed while the message in hand asks for more calls and another
\* message waits in the channel
C30_Witness ==
  /\ svc.err # "nil"
  /\ Len(svc.applied) < RecordsOf(svc.msg)
  /\ queue # <<>>

(* ----------------------- properties of the pipeline --------------------- *)

\* the second task of Start has returned an error of the store
ApplierFailed == svc.pc = "stopped" /\ svc.err # "nil"

\* C11: when a task of Start fails (the applier returns a store error), the sibling
\* task stops and Start returns that error, whether or not the caller ever cancels the
\* context it gave to Start
C11_FailureEndsStart ==
  ApplierFailed ~> (start.pc = "returned" /\ start.err = svc.err)

\* C12: once the context is cancelled ConsumeTokensMessages returns ctx.Err(), from
\* the select, from the drain of the delivery channel and from a send into a full buffer
C12_CancelEndsConsume ==
  (Running /\ ctxDone) ~> (consumer.pc = "returned" /\ consumer.err = "context canceled")

\* the bodies among the first n deliveries that are JSON objects, in delivery order
DecodableUpTo(n) == SelectSeq(SubSeq(published, 1, n), LAMBDA b : b.syntax = "object")

\* the message the publisher marshalled into the body
PublishedAs(body) == CHOOSE m \in PublishedMessages : Marshal(m) = body

\* the message ConsumeTokensMessages has decoded and not yet enqueued
InHand == IF consumer.pc = "send" THEN <<consumer.msg>> ELSE <<>>

\* the ids of the calls of pass n made for the message in hand
IdsOfPass(n) == [k \in 1..Len(CallsOfPass(n)) |-> CallsOfPass(n)[k].id]

IssuingMessage ==
  [IssuedTokenPairs |-> <<TokenPair("r1", "a1", MaxTime)>>, RevokedRefreshTokensID |-> <<>>,
   RevokedAccessTokensID |-> <<>>]

\* the replica's store answers that the refresh id is valid
ReplicaValid == IsValid(RefreshToken, "r1").returns /\ IsValid(RefreshToken, "r1").valid

\* C14: when a message that issues a pair with future expiries is waiting at the
\* broker for a running service, then, unless the service fails, the context is
\* cancelled or the expiry passes first, the replica's store comes to report the
\* refresh id valid
C14_ReplicaConverges ==
  (Running /\ \E k \in (delivered + 1)..Len(published) :
                published[k] = Marshal(IssuingMessage))
    ~> (ReplicaValid \/ ApplierFailed \/ ctxDone \/ now >= MaxTime)

\* the messages decoded from the first n deliveries, in delivery order
DecodedUpTo(n) ==
  [k \in 1..Len(DecodableUpTo(n)) |-> Unmarshal(DecodableUpTo(n)[k]).msg]

\* C17: the output buffer never holds more messages than the configured size, or
\* than 100 when that size is not positive; a message that finds the buffer full stays
\* in the consumer's hand and no further delivery is taken meanwhile; every decoded
\* message is, once and in order, read by the service, in the buffer or in hand
C17_BackPressure ==
  /\ [](Len(queue) <= (IF start.size > 0 THEN start.size ELSE 100))
  /\ [](received \o queue \o InHand = DecodedUpTo(delivered))
  /\ [][consumer.pc = "send" /\ Len(queue) >= (IF start.size > 0 THEN start.size ELSE 100)
         => delivered' = delivered /\ consumer' = consumer]_vars

\* the buffer is full and the consumer waits with a further message in hand
C17_Witness ==
  /\ start.size > 0 /\ Len(queue) = start.size
  /\ consumer.pc = "send" /\ consumer.msg # NoMessage

\* C18: the delivery of a body that cannot be decoded enqueues nothing and leaves
\* the consumer in its drain with no error; the consumer returns only with the
\* context's error; the decodable deliveries after it are the messages enqueued
C18_UndecodableDropped ==
  /\ [][delivered' = delivered + 1 /\ published[delivered + 1].syntax # "object"
         => queue' = queue /\ consumer'.pc = "range" /\ consumer'.err = "nil"]_vars
  /\ [](consumer.pc = "returned" => ctxDone /\ consumer.err = "context canceled")
  /\ [](Len(received) + Len(queue) + Len(InHand) = Len(DecodableUpTo(delivered)))

\* an undecodable body was delivered first, and the message delivered after it was
\* enqueued and read
C18_Witness ==
  /\ published[1] = Undecodable /\ delivered = 2
  /\ received # <<>> /\ consumer.pc = "range"

(* ----------------------- properties of the publisher -------------------- *)

\* C15: a PublishTokensMessage that finds the publisher without a channel opens it
\* and comes to an end (it returns, or fails in the send)
C15_PublishLazilyOpens ==
  \A t \in PublisherThreads :
    (pthreads[t].op = "Publish" /\ pthreads[t].pc = "locked" /\ pch = "nil")
      ~> (pthreads[t].pc \in {"returned", "panic"})

\* C16: PublishTokensMessage never sends on a channel that Close has closed, and
\* never calls Publish on the nil channel Close has left
C16_CloseNeverRacesPublish ==
  \A t \in PublisherThreads :
    pthreads[t].op = "Publish" => pthreads[t].pc # "panic" /\ pthreads[t].err # "ErrClosed"

(* ---------------------- properties of failing calls --------------------- *)

\* C19: while the underlying store fails, no call returns success, and every call
\* made comes back with the store's error
C19_FailureReported ==
  /\ [](\A k \in 1..Len(hist) : hist[k].err = "connection refused")
  /\ (call.pc # "idle")
       ~> (call.pc = "idle" /\ hist # <<>> /\ hist[Len(hist)].err = "connection refused")

\* C20: on the relational backend a RevokeToken(refresh_token, r) that was called
\* comes to its end, after which no refresh row r and no access row with parent r is
\* left and IsTokenValid(refresh_token, r) answers false
C20_RevokeDeletesRows ==
  \A r \in RefreshIds :
    (backend = "sqlite" /\ call.pc # "idle" /\ call.op = "Revoke"
       /\ call.token = RefreshToken /\ call.id = r)
      ~> (/\ call.pc = "idle"
          /\ r \notin DOMAIN refresh_tokens
          /\ \A a \in DOMAIN access_tokens : access_tokens[a].parent # r
          /\ IsValid(RefreshToken, r).returns /\ ~IsValid(RefreshToken, r).valid)

\* the first call in hist that added the record (kind, id)
FirstAdd(token, id) ==
  LET adds == {k \in 1..Len(hist) : hist[k].op \in {"AddRefresh", "AddAccess"}
                                     /\ hist[k].token = token /\ hist[k].id = id}
  IN hist[CHOOSE k \in adds : \A j \in adds : k <= j]

\* C21: on the relational backend an AddRefreshToken or AddAccessToken that was called
\* returns nil, and leaves for its id the row that the first Add of that id wrote
C21_AddIdempotent ==
  (backend = "sqlite" /\ call.pc # "idle" /\ call.op \in {"AddRefresh", "AddAccess"})
    ~> (/\ call.pc = "idle" /\ hist # <<>>
        /\ LET last == hist[Len(hist)] IN
           /\ last.err = "nil"
           /\ HasRecord(last.token, last.id)
           /\ RecordExpiry(last.token, last.id) = FirstAdd(last.token, last.id).exp)

(* --------------------- properties of the sync watermark ----------------- *)

\* C22: a GetLastSyncTokensUpdatedAt on a log that holds no row returns the zero time and no
\* error
C22_EmptyLogIsZeroTime ==
  (args.op = "Get" /\ sync_tokens = <<>>) => out = [time |-> ZeroTime, err |-> "nil"]

\* the largest value the log holds
LargestStored(rows) == CHOOSE v \in {rows[k] : k \in 1..Len(rows)} : \A k \in 1..Len(rows) : rows[k] <= v

\* C23: only an update changes the log, and it appends one row holding the time passed less
\* one second; a Get on a log that is not empty returns the largest stored value; and of two
\* successive answers of Get the later is not the smaller
C23_AppendOnlyWatermark ==
  [][/\ sync_tokens' # sync_tokens
          => (args'.op = "Update" /\ sync_tokens' = Append(sync_tokens, args'.updatedAt - 1))
     /\ (args'.op = "Get" /\ sync_tokens # <<>>)
          => out' = [time |-> TimeUnix(LargestStored(sync_tokens)), err |-> "nil"]
     /\ (out.err = "nil" /\ out'.err = "nil" /\ ~out.time.zero)
          => (~out'.time.zero /\ out'.time.unix >= out.time.unix)]_vars

\* an update with an earlier time came after one with a later time, and Get has answered
C23_Witness ==
  /\ Len(sync_tokens) >= 2
  /\ sync_tokens[Len(sync_tokens)] < sync_tokens[1]
  /\ args.op = "Get"
  /\ out = [time |-> TimeUnix(sync_tokens[1]), err |-> "nil"]

(* ----------------------- properties of key derivation ------------------- *)

\* the keys of one backend: two pairs with one key are one pair, no key is a parent-link
\* key, and a kind that is neither Refresh nor Access gives an error and the empty key
KeysInjective(keys, parents) ==
  /\ (keys[1].err = "nil" /\ keys[2].err = "nil" /\ keys[1].val = keys[2].val)
       => (args.k1 = args.k2 /\ args.i1 = args.i2)
  /\ \A n \in 1..2 : keys[n].err = "nil" => keys[n].val \notin parents
  /\ args.k1 \notin TokenKinds => (keys[1].err # "nil" /\ keys[1].val = "")
  /\ args.k2 \notin TokenKinds => (keys[2].err # "nil" /\ keys[2].val = "")

\* C24: for ids without the separator, on the key/value and on the cache backend, equal
\* keys come only from equal (kind, id) pairs, no token key equals a parent-link key of a
\* refresh id, and a kind outside {Refresh, Access} yields an error and no key
C24_KeysInjective ==
  out.called => (/\ KeysInjective(out.redis, out.redisParent)
                   /\ KeysInjective(out.cache, out.cacheParent))

\* the keys were derived for the refresh id "P" and the empty id, whose keys differ only
\* through the separator
C24_Witness ==
  /\ out.called
  /\ args = [k1 |-> RefreshToken, i1 |-> "P", k2 |-> AccessToken, i2 |-> ""]
  /\ out.cache[1].err = "nil"

(* ------------------- properties of the bearer metadata parser ----------- *)

\* the value has exactly one space, "Bearer" before it, and the token after it
IsBearerOf(v, token) ==
  \E p \in 1..Len(v) :
    /\ v[p] = " "
    /\ \A q \in 1..Len(v) : v[q] = " " => q = p
    /\ Concat(SubSeq(v, 1, p - 1)) = "Bearer"
    /\ Concat(SubSeq(v, p + 1, Len(v))) = token

\* the tokens a value of the model can carry
BearerTokens == {Concat(v) : v \in MetadataValues}

\* C25: the parser returns the text after the space exactly when the first value under
\* "authorization" is "Bearer", one space and a text without a space; any other value gives
\* AuthorizationMetadataInvalid, and no value gives AuthorizationMetadataNotProvided
C25_BearerParser ==
  out.called =>
    IF args = <<>> THEN out.err = "AuthorizationMetadataNotProvidedError" /\ out.token = ""
    ELSE IF \E t \in BearerTokens : IsBearerOf(args[1], t)
         THEN out.err = "nil" /\ IsBearerOf(args[1], out.token)
         ELSE out.err = "AuthorizationMetadataInvalidError" /\ out.token = ""

\* "Bearer abc" was parsed and gave the token abc
C25_Witness ==
  /\ out.called
  /\ args = << <<"Bearer", " ", "abc">> >>
  /\ out.token = "abc" /\ out.err = "nil"

(* --------------------- properties of the transport adapters ------------- *)

\* C26: on every adapter a setter called with the empty token returns EmptyToken and leaves
\* the carrier as it was, and the carrier never holds an empty token, so that a getter
\* reports a token that is not empty or the missing token error
C26_SetterRefusesEmpty ==
  [][/\ (out'.op = "Set" /\ out'.token = "") => (out'.err = "ErrEmptyToken" /\ carrier' = carrier)
     /\ \A k \in DOMAIN carrier' : carrier'[k] # ""
     /\ (out'.op = "Get" /\ out'.err = "nil") => out'.token # ""]_vars

(* ------------------ properties of the relational backend ---------------- *)

\* C27: on the relational backend a RevokeToken or IsTokenValid with a kind that is neither
\* Refresh nor Access returns nil (IsTokenValid: false) and leaves both token tables as
\* they were
C27_OtherKindChangesNothing ==
  [][(hist' # hist /\ hist'[Len(hist')].token \notin TokenKinds)
       => (/\ hist'[Len(hist')].op \in {"Revoke", "IsValid"}
           /\ hist'[Len(hist')].err = "nil"
           /\ ~out'.valid
           /\ refresh_tokens' = refresh_tokens
           /\ access_tokens' = access_tokens)]_vars

\* a RevokeToken with the other kind has returned for an id that has a refresh row and an
\* access row under it
C27_Witness ==
  /\ hist # <<>>
  /\ hist[Len(hist)].op = "Revoke" /\ hist[Len(hist)].token = OtherToken
  /\ hist[Len(hist)].id \in DOMAIN refresh_tokens
  /\ \E a \in DOMAIN access_tokens : access_tokens[a].parent = hist[Len(hist)].id

(* ------------------ properties of the key/value backend ----------------- *)

\* the record the RevokeToken that returned last was called for
LastRevoked == <<FromEnd(0).token, FromEnd(0).id>>

\* C28: on the key/value backend, when RevokeToken(k, i) has returned and the key of (k, i)
\* was absent or expired when it was called, IsTokenValid(k, i) answers false and the store
\* holds no key for (k, i) without a TTL
C28_RevokeDoesNotResurrect ==
  ( /\ backend = "redis" /\ call.pc = "idle" /\ Len(hist) > 0
    /\ FromEnd(0).op = "Revoke" /\ before[LastRevoked] = 0 )
  => LET key == GetKey(LastRevoked[1], LastRevoked[2]).val IN
     /\ ~IsValid(LastRevoked[1], LastRevoked[2]).valid
     /\ ~(KvLive(kv, now, key) /\ ~kv[key].hasExp)

\* RevokeToken has returned for an access id that was never added
C28_Witness ==
  /\ backend = "redis" /\ call.pc = "idle" /\ Len(hist) > 0
  /\ FromEnd(0).op = "Revoke" /\ FromEnd(0).token = AccessToken /\ FromEnd(0).err = "nil"
  /\ before[LastRevoked] = 0
  /\ LastAdded(AccessToken, FromEnd(0).id) = 0

(* ------------------- further properties of the service ------------------ *)

\* C31: for the message in hand the service calls RevokeToken(Access, id) no more often
\* than the revoked-access list names ids, and when the message is applied to its end it
\* has called it once for each id of the list, in list order
C31_RevokeAccessOnce ==
  /\ Len(CallsOfPass(3)) <= Len(svc.msg.RevokedAccessTokensID)
  /\ Applied => IdsOfPass(3) = svc.msg.RevokedAccessTokensID

(* ------------------ further properties of the cache backend ------------- *)

\* a RevokeToken(kind, id) has returned without error
RevokeReturnedOk(token, id) ==
  \E k \in 1..Len(hist) :
    hist[k].op = "Revoke" /\ hist[k].token = token /\ hist[k].id = id /\ hist[k].err = "nil"

\* C32: on the cache backend, once RevokeToken(k, i) has returned without error,
\* IsTokenValid(k, i) does not answer true, whatever calls followed the revocation
C32_RevocationPermanent ==
  backend = "cache"
  => \A p \in TokenRecords : RevokeReturnedOk(p[1], p[2]) => ~IsValid(p[1], p[2]).valid

\* the refresh id the access id a was last added under, "" when it was never added
ParentOf(a) ==
  IF LastAdded(AccessToken, a) = 0 THEN "" ELSE hist[LastAdded(AccessToken, a)].parent

\* C33: on the cache backend, whenever no call is under way, an access id that
\* IsTokenValid answers true for was added under a refresh id for which no RevokeToken
\* has returned without error
C33_NoValidAccessUnderRevokedParent ==
  (backend = "cache" /\ call.pc = "idle")
  => \A a \in AccessIds :
       IsValid(AccessToken, a).valid => ~RevokeReturnedOk(RefreshToken, ParentOf(a))

\* the cache c holds the access record (a, expiresAt), valid, and the parent link r -> a
StoredUnder(c, a, r, expiresAt) ==
  /\ GetTokenKey(AccessToken, a).val \in DOMAIN c
  /\ c[GetTokenKey(AccessToken, a).val] = TimedFlag(TRUE, expiresAt)
  /\ GetParentRefreshTokenKey(r) \in DOMAIN c
  /\ c[GetParentRefreshTokenKey(r)] = TimedLink(a, expiresAt)

\* C38: on the cache backend an AddAccessToken(a, r, t) that returns nil has stored the access
\* record of a and the parent link r -> a, and one that returns an error has left the cache
\* as it was
C38_AddAccessAllOrNothing ==
  [][(backend = "cache" /\ Len(hist') = Len(hist) + 1 /\ hist'[Len(hist')].op = "AddAccess")
       => LET last == hist'[Len(hist')] IN
          IF last.err = "nil" THEN StoredUnder(cache', last.id, last.parent, last.exp)
          ELSE cache' = cache]_vars

(* ----------------- further properties of the relational backend --------- *)

\* C34: on the relational backend every call that asks DB() for the connection gets it:
\* the call comes to its end, with the mutex DB() took released again
C34_DBReturns ==
  (backend = "sqlite" /\ call.pc = "DB") ~> (call.pc = "idle" /\ ~mutex)

(* ------------------ further properties of the pipeline ------------------ *)

\* the revocation the service is about to apply, and whether the cache holds its record
NextRevocation ==
  IF svc.pc = "revokedRefresh"
  THEN [token |-> RefreshToken, id |-> svc.msg.RevokedRefreshTokensID[svc.i]]
  ELSE [token |-> AccessToken, id |-> svc.msg.RevokedAccessTokensID[svc.i]]

\* C37: with the cache backend, a revocation applied for an id the cache holds no record of
\* does not stop the service: it goes on without an error to the next record or message
C37_UnknownRevocationGoesOn ==
  [][(/\ backend = "cache"
      /\ svc.pc \in {"revokedRefresh", "revokedAccess", "revokedAccessAgain"}
      /\ ~CacheGet(cache, now, GetTokenKey(NextRevocation.token, NextRevocation.id).val).found
      /\ svc'.applied # svc.applied)
       => (svc'.pc # "stopped" /\ svc'.err = "nil")]_vars

\* C35: a Start on a consumer whose channel is not open gets through
\* CreateTokensMessagesConsumer: it goes on with a handle or returns with an error
C35_StartSetsUp ==
  (start.pc = "create" /\ ~start.opened) ~> (start.pc \in {"wait", "returned"})

\* a step of a RevokeToken(access_token, a), the clock standing still: the call is made, is
\* under way, or has just returned
RevokeAccessStep(a) ==
  /\ now' = now
  /\ \/ call.op = "Revoke" /\ call.token = AccessToken /\ call.id = a
     \/ call'.op = "Revoke" /\ call'.token = AccessToken /\ call'.id = a
     \/ /\ Len(hist') = Len(hist) + 1
        /\ hist'[Len(hist')].op = "Revoke" /\ hist'[Len(hist')].token = AccessToken
        /\ hist'[Len(hist')].id = a

C39_FailedOpenLeavesClosed ==
  [][\A t \in PublisherThreads :
       /\ (pthreads[t].op = "Open" /\ pthreads[t].pc = "locked" /\ pthreads'[t].pc = "returned"
             /\ pthreads'[t].err # "nil")
            => pch' = "nil"
       /\ (pthreads[t].pc = "publish" /\ pthreads'[t].pc # "publish") => pch # "undeclared"]_vars

(* --------------- further properties shared by the backends -------------- *)

\* the last call to return was RevokeToken(refresh_token, r), made while r was live (last
\* added with an expiry that is still ahead, not revoked before) and while no AddAccessToken had
\* named r as its parent
ChildlessRevokeCase(r) ==
  /\ backend \in {"cache", "redis"} /\ call.pc = "idle" /\ Len(hist) >= 2
  /\ FromEnd(0).op = "Revoke" /\ FromEnd(0).token = RefreshToken /\ FromEnd(0).id = r
  /\ LastAdded(RefreshToken, r) > 0 /\ hist[LastAdded(RefreshToken, r)].exp > now
  /\ \A k \in 1..(Len(hist) - 1) :
       /\ ~(hist[k].op = "Revoke" /\ hist[k].token = RefreshToken /\ hist[k].id = r)
       /\ ~(hist[k].op = "AddAccess" /\ hist[k].parent = r)

\* C36: on the cache and the key/value backend a RevokeToken(refresh_token, r) on a live
\* refresh record under which no access token was added returns nil, and
\* IsTokenValid(refresh_token, r) then answers false
C36_ChildlessRevokeAgrees ==
  \A r \in RefreshIds :
    ChildlessRevokeCase(r)
    => FromEnd(0).err = "nil" /\ IsValid(RefreshToken, r).returns
         /\ ~IsValid(RefreshToken, r).valid

====
